---- MODULE Spec2Model ----
(***************************************************************************)
(* PullSaw: the stacked-change execution engine.                           *)
(*                                                                         *)
(* The model follows src/pullsaw: the pattern matcher (pathspec.py), the   *)
(* branch-name sanitizer and the repository operations (git_ops.py), plan  *)
(* validation, the per-step state machine and the orchestrator             *)
(* (executor.py) and the command line entry point (main.py).               *)
(*                                                                         *)
(* Strings are TLA+ strings; Len, SubSeq, Head, Tail and \o act on them    *)
(* character by character.                                                 *)
(***************************************************************************)
EXTENDS Integers, Sequences, FiniteSets, TLC

(***************************************************************************)
(* String helpers (Python str methods used by the source).                 *)
(***************************************************************************)

\* str.startswith
StartsWith(s, p) == Len(p) <= Len(s) /\ SubSeq(s, 1, Len(p)) = p

\* str.endswith
EndsWith(s, p) == Len(p) <= Len(s) /\ SubSeq(s, Len(s) - Len(p) + 1, Len(s)) = p

\* the `in` operator on two strings
Contains(s, sub) ==
    \E i \in 1..(Len(s) - Len(sub) + 1) : SubSeq(s, i, i + Len(sub) - 1) = sub

\* s[i:] for a 0-based index i
DropChars(s, i) == SubSeq(s, i + 1, Len(s))

\* str(n) for a natural number
RECURSIVE IntToStr(_)
IntToStr(n) ==
    LET d == <<"0", "1", "2", "3", "4", "5", "6", "7", "8", "9">>
    IN  IF n < 10 THEN d[n + 1] ELSE IntToStr(n \div 10) \o d[(n % 10) + 1]

\* list concatenation of a sequence of sequences
RECURSIVE Flatten(_)
Flatten(ss) == IF ss = <<>> THEN <<>> ELSE Head(ss) \o Flatten(Tail(ss))

(***************************************************************************)
(* pathspec.py                                                             *)
(***************************************************************************)

\* the components of a POSIX path: split on "/", dropping empty and "."
\* components (PurePosixPath.parts without the root)
RECURSIVE PathParts(_)
PathParts(s) ==
    IF s = "" THEN <<>>
    ELSE LET cut == IF Contains(s, "/")
                    THEN CHOOSE i \in 1..Len(s) :
                            /\ SubSeq(s, i, i) = "/"
                            /\ \A j \in 1..(i - 1) : SubSeq(s, j, j) # "/"
                    ELSE Len(s) + 1
             first == SubSeq(s, 1, cut - 1)
             rest == IF cut > Len(s) THEN "" ELSE DropChars(s, cut)
         IN  (IF first = "" \/ first = "." THEN <<>> ELSE <<first>>) \o PathParts(rest)

\* fnmatch.fnmatchcase on one path component: "*" stands for any text,
\* "?" for one character, anything else for itself
RECURSIVE FnMatch(_, _)
FnMatch(name, pat) ==
    IF pat = "" THEN name = ""
    ELSE IF Head(pat) = "*"
         THEN \E k \in 0..Len(name) : FnMatch(DropChars(name, k), Tail(pat))
         ELSE /\ name # ""
              /\ (Head(pat) = "?" \/ Head(pat) = Head(name))
              /\ FnMatch(Tail(name), Tail(pat))

PurePathMatch_flat(filepath, pattern) == FnMatch(filepath, pattern)

\* PurePosixPath(filepath).match(pattern): an absolute pattern must match the
\* whole path, a relative one is matched component by component from the right;
\* "**" is an ordinary "*" component
PurePathMatch(filepath, pattern) ==
    LET parts == PathParts(filepath)
        pat == PathParts(pattern)
        n == Len(parts)
        m == Len(pat)
        patAbs == StartsWith(pattern, "/")
        pathAbs == StartsWith(filepath, "/")
    IN  /\ IF patAbs THEN m = n /\ pathAbs ELSE m <= n
        /\ \A k \in 1..m : FnMatch(parts[n - m + k], pat[k])

\* matches_pattern
matches_pattern(filepath, pattern) ==
    IF EndsWith(pattern, "/**")
    THEN LET prefix == SubSeq(pattern, 1, Len(pattern) - 3)
         IN  \/ StartsWith(filepath, prefix \o "/")
             \/ filepath = prefix
             \/ PurePathMatch(filepath, pattern)
    ELSE IF Contains(pattern, "**") THEN PurePathMatch(filepath, pattern)
    ELSE IF Contains(pattern, "*") THEN PurePathMatch(filepath, pattern)
    ELSE filepath = pattern

\* matches_any_pattern
matches_any_pattern(filepath, patterns) ==
    \E k \in 1..Len(patterns) : matches_pattern(filepath, patterns[k])

TooBroad_bare(p) == p = "**"

\* line 58
TooBroad(p) == p = "**" \/ p = "**/*"

\* validate_patterns: one message per rejected pattern, in pattern order
RECURSIVE validate_patterns(_)
validate_patterns(patterns) ==
    IF patterns = <<>> THEN <<>>
    ELSE LET p == Head(patterns)
             here == IF p = "" THEN <<"Empty pattern not allowed">>
                     ELSE IF TooBroad(p)
                          THEN <<"Pattern '" \o p \o "' is too broad - must have a directory prefix">>
                          ELSE <<>>
         IN  here \o validate_patterns(Tail(patterns))

(***************************************************************************)
(* git_ops.py                                                              *)
(***************************************************************************)

\* the character class [\s~^:?*\[\]\\@/] of sanitize_branch_name
BadBranchChars == {" ", "\t", "\n", "\r", "~", "^", ":", "?", "*", "[", "]", "\\", "@", "/"}

\* re.sub(r"[\s~^:?*\[\]\\@/]+", "-", name): every maximal run of bad
\* characters becomes one hyphen
RECURSIVE ReplaceBadRuns(_, _)
ReplaceBadRuns(s, inRun) ==
    IF s = "" THEN ""
    ELSE IF Head(s) \in BadBranchChars
         THEN (IF inRun THEN "" ELSE "-") \o ReplaceBadRuns(Tail(s), TRUE)
         ELSE Head(s) \o ReplaceBadRuns(Tail(s), FALSE)

\* re.sub(c{2,}, c, s): every run of two or more c becomes one c
RECURSIVE CollapseRuns(_, _)
CollapseRuns(s, c) ==
    IF s = "" THEN ""
    ELSE IF Len(s) >= 2 /\ Head(s) = c /\ Head(Tail(s)) = c
         THEN CollapseRuns(Tail(s), c)
         ELSE Head(s) \o CollapseRuns(Tail(s), c)

\* str.strip(".-")
RECURSIVE StripDotHyphen(_)
StripDotHyphen(s) ==
    IF s = "" THEN ""
    ELSE IF Head(s) \in {".", "-"} THEN StripDotHyphen(Tail(s))
    ELSE IF SubSeq(s, Len(s), Len(s)) \in {".", "-"}
         THEN StripDotHyphen(SubSeq(s, 1, Len(s) - 1))
    ELSE s

sanitize_branch_name_unstripped(name) ==
    CollapseRuns(CollapseRuns(ReplaceBadRuns(name, FALSE), "."), "-")

\* sanitize_branch_name
sanitize_branch_name(name) ==
    CollapseRuns(StripDotHyphen(CollapseRuns(ReplaceBadRuns(name, FALSE), ".")), "-")

\* the branch names a ref lookup accepts: existing branches only
RefExists(refs, name) == name \in refs

\* create_branch: `git checkout -b <sanitized> <from_ref>` exits non-zero when
\* the branch exists already or from_ref does not resolve
create_branch_ok(refs, name, from_ref) ==
    /\ sanitize_branch_name(name) # ""
    /\ ~RefExists(refs, sanitize_branch_name(name))
    /\ RefExists(refs, from_ref)

(***************************************************************************)
(* main.py: --continue                                                     *)
(***************************************************************************)

Digits == {"0", "1", "2", "3", "4", "5", "6", "7", "8", "9"}

\* \d+ : a non-empty run of decimal digits
IsDigits(s) == s # "" /\ \A i \in 1..Len(s) : SubSeq(s, i, i) \in Digits

\* int(s) for a string of digits
RECURSIVE StrToInt(_)
StrToInt(s) ==
    IF s = "" THEN 0
    ELSE LET last == SubSeq(s, Len(s), Len(s))
             v == CHOOSE d \in 0..9 : IntToStr(d) = last
         IN  10 * StrToInt(SubSeq(s, 1, Len(s) - 1)) + v

\* re.match(r"^(.+)-step-(\d+)$", current): the positions where "-step-"
\* starts with a non-empty text before it and only digits after it
ContinueMatches(current) ==
    {i \in 2..Len(current) :
        /\ i + 5 <= Len(current)
        /\ SubSeq(current, i, i + 5) = "-step-"
        /\ IsDigits(DropChars(current, i + 5))}

\* match.group(1)
DerivedHead(current) ==
    LET i == CHOOSE j \in ContinueMatches(current) : TRUE
    IN  SubSeq(current, 1, i - 1)

\* int(match.group(2))
DerivedStart(current) ==
    LET i == CHOOSE j \in ContinueMatches(current) : TRUE
    IN  StrToInt(DropChars(current, i + 5))

(***************************************************************************)
(* Plan documents: a dict carries the set of keys it holds; dict.get falls *)
(* back to the default for a key it does not hold.                         *)
(***************************************************************************)

\* dict.get(key, default)
Get(d, key, default) == IF key \in d.keys THEN d[key] ELSE default

\* f"{step_id}" for step.get("id", "?")
StepIdStr(step) == IF "id" \in step.keys THEN IntToStr(step.id) ELSE "?"

\* f"{original_head}-step-{step_id}"
StepBranchName(head, idStr) == head \o "-step-" \o idStr

\* step.get("allow", []) + step.get("shared_allow", [])
StepPatterns(step) == Get(step, "allow", <<>>) \o Get(step, "shared_allow", <<>>)

\* repr of a list of str, as an f-string prints it
RECURSIVE ReprItems(_)
ReprItems(items) ==
    IF items = <<>> THEN ""
    ELSE "'" \o Head(items) \o "'"
         \o (IF Len(items) > 1 THEN ", " ELSE "") \o ReprItems(Tail(items))

ReprList(items) == "[" \o ReprItems(items) \o "]"

(***************************************************************************)
(* executor.py: validate_plan                                              *)
(***************************************************************************)

ValidationError(message, fatal) == [message |-> message, fatal |-> fatal]

\* a missing required field is reported as fatal (ValidationError's default)
MissingAllowFatal == TRUE

\* the entries of the first loop for one step (lines 47-66)
StepFieldErrors(step) ==
    LET sid == StepIdStr(step)
        prefixed(errs) == [k \in 1..Len(errs) |->
                              ValidationError("Step " \o sid \o ": " \o errs[k], TRUE)]
    IN  IF "allow" \notin step.keys
        THEN <<ValidationError("Step " \o sid \o ": missing 'allow' field", MissingAllowFatal)>>
        ELSE (IF Get(step, "title", "") = ""
              THEN <<ValidationError("Step " \o sid \o ": missing 'title' field", FALSE)>>
              ELSE <<>>)
             \o (IF Get(step, "goal", "") = ""
                 THEN <<ValidationError("Step " \o sid \o ": missing 'goal' field", FALSE)>>
                 ELSE <<>>)
             \o prefixed(validate_patterns(StepPatterns(step)))

\* all_patterns: the patterns of every step that has an 'allow' field
AllPatterns(steps) ==
    Flatten([k \in 1..Len(steps) |->
                IF "allow" \in steps[k].keys THEN StepPatterns(steps[k]) ELSE <<>>])

\* uncovered: the changed files no collected pattern matches, in order
RECURSIVE Uncovered(_, _)
Uncovered(files, patterns) ==
    IF files = <<>> THEN <<>>
    ELSE (IF matches_any_pattern(Head(files), patterns) THEN <<>> ELSE <<Head(files)>>)
         \o Uncovered(Tail(files), patterns)

\* fatal=False at line 90 (and at models.py line 160): a step that covers no
\* changed file is a warning
UsefulnessFatal_set == TRUE

UsefulnessFatal == FALSE

\* the entry of the last loop for one step (lines 78-91)
StepUsefulness(step, files) ==
    IF \E k \in 1..Len(files) : matches_any_pattern(files[k], StepPatterns(step))
    THEN <<>>
    ELSE <<ValidationError("Step " \o StepIdStr(step) \o " doesn't cover any changed files",
                           UsefulnessFatal)>>

\* validate_plan(plan, changed_files)
validate_plan(plan, files) ==
    IF "stack" \notin plan.keys
    THEN <<ValidationError("Plan missing 'stack' field", TRUE)>>
    ELSE IF plan.stack = <<>>
    THEN <<ValidationError("Plan has no steps", TRUE)>>
    ELSE LET steps == plan.stack
             uncovered == Uncovered(files, AllPatterns(steps))
         IN  Flatten([k \in 1..Len(steps) |-> StepFieldErrors(steps[k])])
             \o (IF uncovered # <<>>
                 THEN <<ValidationError("Files not covered by any step: "
                                        \o ReprList(uncovered), TRUE)>>
                 ELSE <<>>)
             \o Flatten([k \in 1..Len(steps) |-> StepUsefulness(steps[k], files)])

\* fatal_errors / warnings of main (lines 242-243)
FatalErrors(errors) == {k \in 1..Len(errors) : errors[k].fatal}
Warnings(errors) == {k \in 1..Len(errors) : ~errors[k].fatal}

(***************************************************************************)
(* models.py: Step.from_dict and Plan.validate                             *)
(***************************************************************************)

\* Step.from_dict: a Step object holds every field, absent ones defaulted
from_dict(data) ==
    [id |-> Get(data, "id", 0),
     title |-> Get(data, "title", ""),
     goal |-> Get(data, "goal", ""),
     allow |-> Get(data, "allow", <<>>),
     shared_allow |-> Get(data, "shared_allow", <<>>),
     topic |-> Get(data, "topic", "<None>")]

\* Step.all_patterns
all_patterns(step) == step.allow \o step.shared_allow

\* the entries of the first loop of Plan.validate for one step (lines 122-141)
PlanStepFieldErrors(step) ==
    LET sid == IntToStr(step.id)
        errs == validate_patterns(all_patterns(step))
    IN  IF step.allow = <<>>
        THEN <<ValidationError("Step " \o sid \o ": missing 'allow' field", TRUE)>>
        ELSE (IF step.title = ""
              THEN <<ValidationError("Step " \o sid \o ": missing 'title' field", FALSE)>>
              ELSE <<>>)
             \o (IF step.goal = ""
                 THEN <<ValidationError("Step " \o sid \o ": missing 'goal' field", FALSE)>>
                 ELSE <<>>)
             \o [k \in 1..Len(errs) |-> ValidationError("Step " \o sid \o ": " \o errs[k], TRUE)]

\* all_patterns of Plan.validate: the patterns of every step with a non-empty
\* allow list (lines 124-126 and 136)
PlanAllPatterns(steps) ==
    Flatten([k \in 1..Len(steps) |->
                IF steps[k].allow = <<>> THEN <<>> ELSE all_patterns(steps[k])])

\* the entry of the last loop of Plan.validate for one step (lines 153-161)
PlanStepUsefulness(step, files) ==
    IF \E k \in 1..Len(files) : matches_any_pattern(files[k], all_patterns(step))
    THEN <<>>
    ELSE <<ValidationError("Step " \o IntToStr(step.id) \o " doesn't cover any changed files",
                           UsefulnessFatal)>>

\* Plan.validate without the early return of lines 115-117
Plan_validate_unguarded(data, files) ==
    LET steps == [k \in 1..Len(data.stack) |-> from_dict(data.stack[k])]
        uncovered == Uncovered(files, PlanAllPatterns(steps))
    IN  Flatten([k \in 1..Len(steps) |-> PlanStepFieldErrors(steps[k])])
        \o (IF uncovered # <<>>
            THEN <<ValidationError("Files not covered by any step: "
                                   \o ReprList(uncovered), TRUE)>>
            ELSE <<>>)
        \o Flatten([k \in 1..Len(steps) |-> PlanStepUsefulness(steps[k], files)])

\* Plan.validate(changed_files) for the plan Plan.from_dict builds from data
Plan_validate(data, files) ==
    LET steps == [k \in 1..Len(data.stack) |-> from_dict(data.stack[k])]
        uncovered == Uncovered(files, PlanAllPatterns(steps))
    IN  IF steps = <<>>
        THEN <<ValidationError("Plan has no steps", TRUE)>>
        ELSE Flatten([k \in 1..Len(steps) |-> PlanStepFieldErrors(steps[k])])
             \o (IF uncovered # <<>>
                 THEN <<ValidationError("Files not covered by any step: "
                                        \o ReprList(uncovered), TRUE)>>
                 ELSE <<>>)
             \o Flatten([k \in 1..Len(steps) |-> PlanStepUsefulness(steps[k], files)])

(***************************************************************************)
(* Bounds and the inputs a run draws from.                                 *)
(***************************************************************************)

\* the longest plan
MaxSteps == 3

\* the largest max_fix_attempts a loaded configuration holds
MaxFixAttempts == 3

\* Python's None
None == "<None>"

\* the head branches of the modelled repositories: one whose step branches
\* keep their name and one whose step branches are renamed by sanitization
Heads == {"feat", "fix/x"}

\* exit codes of the format, check and test commands
ExitCodes == {0, 1}

\* a command that exits with rc
Exited(rc) == [exited |-> TRUE, returncode |-> rc]

\* a command that does not exit: no exit code is ever read from it
Never == [exited |-> FALSE, returncode |-> 0]

\* how a format, check or test command ends
CommandOutcomes == {Exited(rc) : rc \in ExitCodes} \cup {Never}

Letter(k) == SubSeq("abcdefgh", k, k)

\* a well-formed step: it owns one directory and shares the build file; every
\* second step carries its own topic
GoodStep(k) ==
    [keys |-> {"id", "title", "goal", "allow", "shared_allow"}
                 \cup (IF k % 2 = 0 THEN {"topic"} ELSE {}),
     id |-> k,
     title |-> "Step " \o IntToStr(k),
     goal |-> "Goal " \o IntToStr(k),
     allow |-> <<"lib/" \o Letter(k) \o "/**">>,
     shared_allow |-> <<"mix.exs">>,
     topic |-> "topic-" \o IntToStr(k)]

GoodPlan(n) == [keys |-> {"stack"}, stack |-> [k \in 1..n |-> GoodStep(k)]]

\* the plan with its last step replaced
WithLastStep(plan, step) ==
    [plan EXCEPT !.stack = [k \in 1..Len(plan.stack) |->
                               IF k = Len(plan.stack) THEN step ELSE plan.stack[k]]]

\* plan files whose validation gives warnings only
WarnPlans ==
    {WithLastStep(GoodPlan(1), [GoodStep(1) EXCEPT !.title = ""]),
     WithLastStep(GoodPlan(1), [GoodStep(1) EXCEPT !.keys = @ \ {"goal"}]),
     WithLastStep(GoodPlan(2), [GoodStep(2) EXCEPT !.keys = @ \ {"shared_allow"}])}

\* plan files whose validation gives a fatal entry, and the empty document
BadPlans ==
    {WithLastStep(GoodPlan(2), [GoodStep(2) EXCEPT !.keys = @ \ {"allow"}]),
     WithLastStep(GoodPlan(1), [GoodStep(1) EXCEPT !.allow = <<"**">>]),
     [keys |-> {"steps"}, stack |-> <<>>],
     [keys |-> {"stack"}, stack |-> <<>>],
     [keys |-> {}, stack |-> <<>>]}

PlanDocs == {GoodPlan(n) : n \in 1..MaxSteps} \cup WarnPlans \cup BadPlans

\* the changed files of the head branch: none, files every good plan covers,
\* and the same with a file no plan covers
ChangedSets ==
    {<<>>,
     <<"lib/a/x.py", "mix.exs">>,
     <<"lib/a/x.py", "mix.exs", "README.md">>}

Configs ==
    [max_fix_attempts : 1..MaxFixAttempts,
     format_cmd : BOOLEAN,
     check_cmd : BOOLEAN,
     strict : BOOLEAN]

\* what an agent invocation returns (ClaudeResult.success, .session_id)
AgentResults == [success : BOOLEAN, session_id : {None, "sess-1"}]

(***************************************************************************)
(* State.                                                                  *)
(***************************************************************************)

VARIABLES
    pc,        \* the position of the run
    args,      \* the command line flags: continue_run, skip
    repo,      \* the repository: refs (branch names), current (checked out)
    created,   \* the successful create_branch calls, in order
    commits,   \* the commits made by the run, in order
    env,       \* main's locals: head, base, start_from, config, plan, ...
    ex,        \* execute's locals: i, prev, prev_topic, branches, modes
    st,        \* execute_step's locals and what the current call has done
    out,       \* how the run ended
    call       \* a function applied on its own: its name, arguments and result

vars == <<pc, args, repo, created, commits, env, ex, st, out, call>>

\* no function is applied on its own during a run
NoCall == [fn |-> "none"]

NoConfig == [max_fix_attempts |-> 1, format_cmd |-> FALSE, check_cmd |-> FALSE,
             strict |-> FALSE]

NoPlan == [keys |-> {}, stack |-> <<>>]

NoStep ==
    [is_retry |-> FALSE, branch_name |-> "", actual_branch |-> "", session_id |-> None,
     attempt |-> 0, outside |-> FALSE, check_failed |-> FALSE, test_failed |-> FALSE,
     check_ran |-> FALSE, check_rc |-> 0, test_ran |-> FALSE, test_rc |-> 0,
     branch_calls |-> 0, impls |-> 0, impl |-> "none", verifs |-> 0, fixes |-> 0,
     last |-> "none"]

NoDiff == [ref1 |-> None, ref2 |-> None, result |-> "none"]

NoExecute == [i |-> 1, prev |-> None, prev_topic |-> None, branches |-> <<>>, modes |-> <<>>,
              diff |-> NoDiff]

Running == [status |-> "running", exc |-> "", msg |-> "", code |-> 0, branches |-> <<>>]

\* sys.exit(code) in main
SysExit(code, msg) ==
    [status |-> "exit", exc |-> "SystemExit", msg |-> msg, code |-> code, branches |-> <<>>]

\* an exception leaving execute: main catches RuntimeError and exits with 1
\* (lines 277-279), anything else ends the process with a traceback
Raised(exc, msg) ==
    [status |-> "raised", exc |-> exc, msg |-> msg, code |-> 1, branches |-> <<>>]

\* the repository a run starts in: a fresh one checked out on the head branch
\* (k = 0), or one in which an earlier run created the branches of steps 1..k
\* and stopped on the branch of step k
StartRepo(h, k) ==
    [refs |-> {"main", h} \cup {sanitize_branch_name(StepBranchName(h, IntToStr(j))) : j \in 1..k},
     current |-> IF k = 0 THEN h
                 ELSE sanitize_branch_name(StepBranchName(h, IntToStr(k))),
     head |-> h]

Init ==
    /\ pc = "main"
    /\ \E h \in Heads, k \in 0..MaxSteps :
          /\ repo = StartRepo(h, k)
          /\ args \in [continue_run : BOOLEAN, skip : BOOLEAN]
          /\ k > 0 => args.continue_run
    /\ created = <<>>
    /\ commits = <<>>
    /\ env = [head |-> None, base |-> None, start_from |-> 1, config |-> NoConfig,
              plan |-> NoPlan, changed_files |-> <<>>, errors |-> <<>>, printed |-> <<>>]
    /\ ex = NoExecute
    /\ st = NoStep
    /\ out = Running
    /\ call = NoCall

(***************************************************************************)
(* main.py: main                                                           *)
(***************************************************************************)

\* the run ends in main with sys.exit
Exit(code, msg) ==
    /\ pc' = "halt"
    /\ out' = SysExit(code, msg)

\* the run ends with an exception
Raise(exc, msg) ==
    /\ pc' = "halt"
    /\ out' = Raised(exc, msg)

\* lines 73-96: --continue derives head and start_from from the current branch
MainContinue ==
    /\ pc = "main"
    /\ \E head_opt \in {None, repo.head} :
          IF args.continue_run
          THEN IF ContinueMatches(repo.current) = {}
               THEN /\ Exit(1, "Current branch doesn't match pattern '{head}-step-N'")
                    /\ UNCHANGED env
               ELSE /\ env' = [env EXCEPT
                                 !.head = IF head_opt = None
                                          THEN DerivedHead(repo.current) ELSE head_opt,
                                 !.start_from = DerivedStart(repo.current)]
                    /\ pc' = "main_clean"
                    /\ UNCHANGED out
          ELSE /\ env' = [env EXCEPT !.head = head_opt]
               /\ pc' = "main_clean"
               /\ UNCHANGED out
    /\ UNCHANGED <<call, args, repo, created, commits, ex, st>>

\* lines 98-131: the working tree must be clean unless the run continues
MainCleanCheck ==
    /\ pc = "main_clean"
    /\ \E is_clean \in BOOLEAN, only_gitignore \in BOOLEAN :
          IF ~args.continue_run /\ ~is_clean /\ ~only_gitignore
          THEN Exit(1, "Working tree has uncommitted changes")
          ELSE pc' = "main_refs" /\ UNCHANGED out
    /\ UNCHANGED <<call, args, repo, created, commits, env, ex, st>>

\* lines 133-166: infer_branches, merge_base and changed_files
MainRefs ==
    /\ pc = "main_refs"
    /\ LET head == IF env.head = None THEN repo.current ELSE env.head
       IN  IF repo.current \in {"main", "master"}
           THEN Exit(1, "Cannot run on main/master branch") /\ UNCHANGED env
           ELSE IF ~RefExists(repo.refs, "main")
           THEN Exit(1, "Could not find main or master branch") /\ UNCHANGED env
           ELSE IF ~RefExists(repo.refs, head)
           THEN Raise("GitError", "git merge-base main " \o head) /\ UNCHANGED env
           ELSE \E files \in ChangedSets :
                   IF files = <<>>
                   THEN Exit(0, "No changes detected between branches.") /\ UNCHANGED env
                   ELSE /\ env' = [env EXCEPT !.head = head, !.base = "main",
                                              !.changed_files = files]
                        /\ pc' = "main_config"
                        /\ UNCHANGED out
    /\ UNCHANGED <<call, args, repo, created, commits, ex, st>>

\* lines 168-182: Config.load and the command line overrides
MainConfig ==
    /\ pc = "main_config"
    /\ \E c \in Configs : env' = [env EXCEPT !.config = c]
    /\ pc' = "main_plan"
    /\ UNCHANGED <<call, args, repo, created, commits, ex, st, out>>

\* lines 184-238: the plan file is read (after generating it when needed)
MainPlan ==
    /\ pc = "main_plan"
    /\ \E found \in BOOLEAN, doc \in PlanDocs :
          IF ~found
          THEN Exit(1, "Plan file not found") /\ UNCHANGED env
          ELSE IF doc.keys = {}
          THEN Exit(1, "Empty plan received") /\ UNCHANGED env
          ELSE /\ env' = [env EXCEPT !.plan = doc]
               /\ pc' = "main_validate"
               /\ UNCHANGED out
    /\ UNCHANGED <<call, args, repo, created, commits, ex, st>>

\* lines 245-246: the messages of the non-fatal entries, in order
RECURSIVE WarningMessages(_)
WarningMessages(errors) ==
    IF errors = <<>> THEN <<>>
    ELSE (IF Head(errors).fatal THEN <<>> ELSE <<Head(errors).message>>)
         \o WarningMessages(Tail(errors))

ValidationBlocks_warn(errors) == Warnings(errors) # {}

\* line 248: fatal entries stop the run
ValidationBlocks(errors) == FatalErrors(errors) # {}

\* lines 240-252: validate the plan, print the warnings, stop on fatal entries
MainValidate ==
    /\ pc = "main_validate"
    /\ LET errors == validate_plan(env.plan, env.changed_files)
       IN  /\ env' = [env EXCEPT !.errors = errors, !.printed = WarningMessages(errors)]
           /\ IF ValidationBlocks(errors)
              THEN Exit(1, "Plan validation failed")
              ELSE pc' = "main_confirm" /\ UNCHANGED out
    /\ UNCHANGED <<call, args, repo, created, commits, ex, st>>

\* lines 254-276: dry run, confirmation, then execute (lines 341-346)
MainConfirm ==
    /\ pc = "main_confirm"
    /\ \E dry_run \in BOOLEAN, proceed \in BOOLEAN :
          IF dry_run
          THEN Exit(0, "Dry run - not executing") /\ UNCHANGED ex
          ELSE IF ~proceed
          THEN Exit(0, "Aborted") /\ UNCHANGED ex
          ELSE /\ ex' = [NoExecute EXCEPT
                            !.prev = env.base,
                            !.modes = [k \in 1..Len(env.plan.stack) |-> "pending"]]
               /\ pc' = "exec_loop"
               /\ UNCHANGED out
    /\ UNCHANGED <<call, args, repo, created, commits, env, st>>

(***************************************************************************)
(* executor.py: execute                                                    *)
(***************************************************************************)

StepRaise_resume(exc, msg) ==
    /\ pc' = "exec_loop"
    /\ out' = Raised(exc, msg)

\* an exception raised inside execute or execute_step: neither catches
\* anything, so it leaves execute at once (lines 348-377) and ends the run in
\* main (lines 271-279)
StepRaise(exc, msg) ==
    /\ pc' = "halt"
    /\ out' = Raised(exc, msg)

Steps == env.plan.stack

\* the step the loop of execute is at
CurStep == Steps[ex.i]

\* step.get("id", i + 1) of line 349 (i counts from 0 there, ex.i from 1)
ExecStepId(i) == Get(Steps[i], "id", i)

NextPosition_skip(i) == i + 2

\* line 348: the loop takes the steps of the plan one after the other
NextPosition(i) == i + 1

AlreadyDone_short(step_id, start_from) == step_id + 1 < start_from

\* line 353
AlreadyDone(step_id, start_from) == step_id < start_from

\* line 363
SkipCurrent(step_id, start_from, skip_current) == step_id = start_from /\ skip_current

\* line 374
IsRetry(step_id, start_from) == step_id = start_from /\ start_from > 1

InferredTopic_default(i) == StepBranchName(env.head, IntToStr(ExecStepId(i)))

\* step.get("topic", f"{head}-step-{step_id}") of lines 357 and 366
InferredTopic(i) ==
    Get(Steps[i], "topic", StepBranchName(env.head, IntToStr(ExecStepId(i))))

\* lines 355-358 and 364-367: branch and topic by naming convention
TrackInferred(mode) ==
    LET branch_name == StepBranchName(env.head, IntToStr(ExecStepId(ex.i)))
    IN  ex' = [ex EXCEPT !.prev = branch_name,
                         !.prev_topic = InferredTopic(ex.i),
                         !.branches = Append(@, branch_name),
                         !.modes[ex.i] = mode,
                         !.i = NextPosition(@)]

\* lines 353-360: a step below start_from is already done
ExecAlreadyDone ==
    /\ pc = "exec_loop"
    /\ ex.i <= Len(Steps)
    /\ AlreadyDone(ExecStepId(ex.i), env.start_from)
    /\ TrackInferred("done")
    /\ UNCHANGED <<call, pc, args, repo, created, commits, env, st, out>>

\* lines 363-369: --skip passes over the step at start_from
ExecSkip ==
    /\ pc = "exec_loop"
    /\ ex.i <= Len(Steps)
    /\ ~AlreadyDone(ExecStepId(ex.i), env.start_from)
    /\ SkipCurrent(ExecStepId(ex.i), env.start_from, args.skip)
    /\ TrackInferred("skipped")
    /\ UNCHANGED <<call, pc, args, repo, created, commits, env, st, out>>

\* lines 371-375 and 182-190: execute_step is called for the step
ExecCallStep ==
    /\ pc = "exec_loop"
    /\ ex.i <= Len(Steps)
    /\ ~AlreadyDone(ExecStepId(ex.i), env.start_from)
    /\ ~SkipCurrent(ExecStepId(ex.i), env.start_from, args.skip)
    /\ LET is_retry == IsRetry(ExecStepId(ex.i), env.start_from)
       IN  /\ st' = [NoStep EXCEPT
                        !.is_retry = is_retry,
                        !.branch_name = StepBranchName(env.head, StepIdStr(CurStep))]
           /\ ex' = [ex EXCEPT !.modes[ex.i] = IF is_retry THEN "retry" ELSE "normal"]
    /\ pc' = "step_begin"
    /\ UNCHANGED <<call, args, repo, created, commits, env, out>>

(***************************************************************************)
(* executor.py: execute_step                                               *)
(***************************************************************************)

\* lines 192-195: retry mode reuses the branch
StepRetry ==
    /\ pc = "step_begin"
    /\ st.is_retry
    /\ st' = [st EXCEPT !.actual_branch = st.branch_name, !.last = "retry"]
    /\ pc' = "loop_head"
    /\ UNCHANGED <<call, args, repo, created, commits, env, ex, out>>

CreateFrom_base == env.base

\* lines 375 and 198: the branch is created from the prev of execute
CreateFrom == ex.prev

\* lines 196-199: create_branch(branch_name, prev_branch)
StepCreateBranch ==
    /\ pc = "step_begin"
    /\ ~st.is_retry
    /\ LET safe_name == sanitize_branch_name(st.branch_name)
       IN  IF create_branch_ok(repo.refs, st.branch_name, CreateFrom)
           THEN /\ repo' = [repo EXCEPT !.refs = @ \cup {safe_name}, !.current = safe_name]
                /\ created' = Append(created, [name |-> safe_name, from_ref |-> CreateFrom,
                                               step |-> ex.i])
                /\ st' = [st EXCEPT !.actual_branch = safe_name, !.branch_calls = @ + 1,
                                    !.last = "create_branch"]
                /\ pc' = "implement"
                /\ UNCHANGED out
           ELSE /\ StepRaise("GitError", "git checkout -b " \o safe_name \o " " \o CreateFrom)
                /\ st' = [st EXCEPT !.branch_calls = @ + 1, !.last = "create_branch"]
                /\ UNCHANGED <<repo, created>>
    /\ UNCHANGED <<call, args, commits, env, ex>>

ImplementationAborts_any(success, changed) == ~success

\* lines 215-223: a failed implementation is fatal only without changes
ImplementationAborts(success, changed) == ~success /\ ~changed

\* lines 201-223: the implementation agent; implement_step reads step["id"],
\* step["goal"] and step["title"] when it builds the prompt; the working tree
\* is looked at only after a reported failure
StepImplement ==
    /\ pc = "implement"
    /\ IF ~({"id", "goal", "title"} \subseteq CurStep.keys)
       THEN /\ StepRaise("KeyError", "implement_step")
            /\ UNCHANGED st
       ELSE \E result \in AgentResults, changed \in BOOLEAN :
               LET seen == IF result.success THEN "success"
                           ELSE IF changed THEN "failed_changes" ELSE "failed_clean"
                   after == [st EXCEPT !.session_id = result.session_id,
                                       !.impls = @ + 1, !.impl = seen,
                                       !.last = "implement"]
               IN  /\ result.success => changed
                   /\ st' = after
                   /\ IF ImplementationAborts(result.success, changed)
                      THEN StepRaise("RuntimeError",
                                     "Step " \o StepIdStr(CurStep)
                                        \o " implementation failed")
                      ELSE pc' = "loop_head" /\ UNCHANGED out
    /\ UNCHANGED <<call, args, repo, created, commits, env, ex>>

\* line 226: for attempt in range(config.max_fix_attempts)
LoopContinues(attempt, max_fix_attempts) == attempt < max_fix_attempts

\* lines 226-230: the loop head and the advisory allowlist check
StepLoopHead ==
    /\ pc = "loop_head"
    /\ IF LoopContinues(st.attempt, env.config.max_fix_attempts)
       THEN \E outside \in BOOLEAN :
               /\ st' = [st EXCEPT !.outside = outside, !.verifs = @ + 1,
                                   !.check_ran = FALSE, !.test_ran = FALSE,
                                   !.last = "allowlist"]
               /\ pc' = "format"
       ELSE pc' = "commit" /\ UNCHANGED st
    /\ UNCHANGED <<call, args, repo, created, commits, env, ex, out>>

\* run_command_streaming, lines 145-159: the loop reads the output until the
\* process has exited; the timeout parameter is not used
StreamingReturns(outcome) == outcome.exited

\* run_command_streaming, line 167: the exit code of the process
StreamingReturnCode(outcome) == outcome.returncode

\* execute_step waits in run_command_streaming
StepBlocked ==
    /\ pc' = "blocked"
    /\ st' = [st EXCEPT !.last = "blocked"]

\* lines 232-239: the format command, whose exit code is only printed
StepFormat ==
    /\ pc = "format"
    /\ IF env.config.format_cmd
       THEN \E outcome \in CommandOutcomes :
               IF StreamingReturns(outcome)
               THEN st' = [st EXCEPT !.last = "format"] /\ pc' = "check"
               ELSE StepBlocked
       ELSE pc' = "check" /\ UNCHANGED st
    /\ UNCHANGED <<call, args, repo, created, commits, env, ex, out>>

\* lines 241-252: the check command
StepCheck ==
    /\ pc = "check"
    /\ IF env.config.check_cmd
       THEN \E outcome \in CommandOutcomes :
               IF StreamingReturns(outcome)
               THEN LET rc == StreamingReturnCode(outcome)
                    IN  /\ st' = [st EXCEPT !.check_failed = (rc # 0), !.check_ran = TRUE,
                                            !.check_rc = rc, !.last = "check"]
                        /\ pc' = "test"
               ELSE StepBlocked
       ELSE st' = [st EXCEPT !.check_failed = FALSE] /\ pc' = "test"
    /\ UNCHANGED <<call, args, repo, created, commits, env, ex, out>>

RunsTests_always(check_failed) == TRUE

\* line 257: tests run only if the check did not fail
RunsTests(check_failed) == ~check_failed

TestsPass_any(rc) == rc \in ExitCodes

\* line 261: a zero exit code of the test command ends the loop
TestsPass(rc) == rc = 0

\* lines 254-267: the test command
StepTest ==
    /\ pc = "test"
    /\ IF RunsTests(st.check_failed)
       THEN \E outcome \in CommandOutcomes :
               IF StreamingReturns(outcome)
               THEN LET rc == StreamingReturnCode(outcome)
                    IN  /\ st' = [st EXCEPT !.test_failed = ~TestsPass(rc),
                                            !.test_ran = TRUE, !.test_rc = rc,
                                            !.last = "test"]
                        /\ pc' = IF TestsPass(rc) THEN "commit" ELSE "decide"
               ELSE StepBlocked
       ELSE /\ st' = [st EXCEPT !.test_failed = FALSE]
            /\ pc' = "decide"
    /\ UNCHANGED <<call, args, repo, created, commits, env, ex, out>>

BoundReached_late(attempt, max_fix_attempts) == attempt >= max_fix_attempts

\* line 274
BoundReached(attempt, max_fix_attempts) == attempt + 1 >= max_fix_attempts

\* lines 269-278: leave the loop, give up at the bound, or go on to a fix
StepDecide ==
    /\ pc = "decide"
    /\ IF ~st.check_failed /\ ~st.test_failed
       THEN pc' = "commit" /\ UNCHANGED <<st, out>>
       ELSE IF BoundReached(st.attempt, env.config.max_fix_attempts)
       THEN /\ StepRaise("RuntimeError",
                         "Step " \o StepIdStr(CurStep) \o " failed after "
                            \o IntToStr(env.config.max_fix_attempts) \o " attempts")
            /\ st' = [st EXCEPT !.last = "max_attempts"]
       ELSE pc' = "fix" /\ UNCHANGED <<st, out>>
    /\ UNCHANGED <<call, args, repo, created, commits, env, ex>>

\* lines 280-300: the fix agent; its result is only printed
StepFix ==
    /\ pc = "fix"
    /\ \E result \in AgentResults :
          st' = [st EXCEPT !.fixes = @ + 1, !.attempt = @ + 1, !.last = "fix"]
    /\ pc' = "loop_head"
    /\ UNCHANGED <<call, args, repo, created, commits, env, ex, out>>

\* line 303
StepTopic(step) == Get(step, "topic", StepBranchName(env.head, StepIdStr(step)))

\* lines 304-306
CommitMessage(step, prev_topic) ==
    "step(" \o StepIdStr(step) \o "): "
        \o Get(step, "title", "Step " \o StepIdStr(step))
        \o "\n\nTopic: " \o StepTopic(step)
        \o (IF prev_topic # None /\ prev_topic # ""
            THEN "\nRelative: " \o prev_topic ELSE "")

\* a failed `git commit` that leaves a commit behind all the same
StepCommit_kept ==
    /\ pc = "commit"
    /\ \E ok \in BOOLEAN :
          /\ commits' = Append(commits, [branch |-> repo.current,
                                         message |-> CommitMessage(CurStep, ex.prev_topic),
                                         step |-> ex.i])
          /\ IF ok
             THEN /\ ex' = [ex EXCEPT !.prev = st.actual_branch,
                                      !.prev_topic = StepTopic(CurStep),
                                      !.branches = Append(@, st.actual_branch),
                                      !.i = NextPosition(@)]
                  /\ st' = [st EXCEPT !.last = "commit"]
                  /\ pc' = "exec_loop"
                  /\ UNCHANGED out
             ELSE /\ StepRaise("GitError", "git commit")
                  /\ st' = [st EXCEPT !.last = "commit_failed"]
                  /\ UNCHANGED ex
    /\ UNCHANGED <<call, args, repo, created, env>>

\* lines 302-317 and 375-377: commit, return to execute; `git commit` exits
\* non-zero when there is nothing to commit
StepCommit ==
    /\ pc = "commit"
    /\ \E ok \in BOOLEAN :
          IF ok
          THEN /\ commits' = Append(commits, [branch |-> repo.current,
                                              message |-> CommitMessage(CurStep, ex.prev_topic),
                                              step |-> ex.i])
               /\ ex' = [ex EXCEPT !.prev = st.actual_branch,
                                   !.prev_topic = StepTopic(CurStep),
                                   !.branches = Append(@, st.actual_branch),
                                   !.i = NextPosition(@)]
               /\ st' = [st EXCEPT !.last = "commit"]
               /\ pc' = "exec_loop"
               /\ UNCHANGED out
          ELSE /\ StepRaise("GitError", "git commit")
               /\ st' = [st EXCEPT !.last = "commit_failed"]
               /\ UNCHANGED <<commits, ex>>
    /\ UNCHANGED <<call, args, repo, created, env>>

DriftFails_always(drift, strict) == drift

\* lines 387-393
DriftFails(drift, strict) == drift /\ strict

\* lines 379-397: the drift check; diff_name_status runs git with check=False
\* and parses whatever it printed
ExecDrift ==
    /\ pc = "exec_loop"
    /\ ex.i > Len(Steps)
    /\ \E result \in {"empty", "changes", "git_failed"} :
          LET drift == result = "changes"
          IN  /\ ex' = [ex EXCEPT !.diff = [ref1 |-> env.head, ref2 |-> ex.prev,
                                            result |-> result]]
              /\ IF DriftFails(drift, env.config.strict)
                 THEN StepRaise("RuntimeError", "Drift detected in strict mode")
                 ELSE /\ pc' = "halt"
                      /\ out' = [status |-> "done", exc |-> "",
                                 msg |-> IF drift THEN "Drift detected vs original branch:"
                                         ELSE "No drift - stack matches original!",
                                 code |-> 0, branches |-> ex.branches]
    /\ UNCHANGED <<call, args, repo, created, commits, env, st>>

Next == MainContinue \/ MainCleanCheck \/ MainRefs \/ MainConfig \/ MainPlan
        \/ MainValidate \/ MainConfirm
        \/ ExecAlreadyDone \/ ExecSkip \/ ExecCallStep \/ ExecDrift
        \/ StepRetry \/ StepCreateBranch \/ StepImplement \/ StepLoopHead
        \/ StepFormat \/ StepCheck \/ StepTest \/ StepDecide \/ StepFix \/ StepCommit

Spec == Init /\ [][Next]_vars

(***************************************************************************)
(* Functions applied on their own: the state holds one application, first  *)
(* its arguments and then its result.                                      *)
(***************************************************************************)

\* nothing of a run happens while a function is applied on its own
NoRun ==
    /\ pc = "fn"
    /\ args = [continue_run |-> FALSE, skip |-> FALSE]
    /\ repo = StartRepo("feat", 0)
    /\ created = <<>>
    /\ commits = <<>>
    /\ env = [head |-> None, base |-> None, start_from |-> 1, config |-> NoConfig,
              plan |-> NoPlan, changed_files |-> <<>>, errors |-> <<>>, printed |-> <<>>]
    /\ ex = NoExecute
    /\ st = NoStep
    /\ out = Running

\* the function fn returns result
Return(fn, result) ==
    /\ call.fn = fn /\ ~call.done
    /\ call' = [call EXCEPT !.done = TRUE, !.result = result]
    /\ UNCHANGED <<pc, args, repo, created, commits, env, ex, st, out>>

\* executor.py: run_command -------------------------------------------------

\* a command as subprocess.run sees it: how long it runs (seconds), its exit
\* code and what it writes
CommandRuns ==
    [duration : {1, 120, 121}, returncode : {0, 1, 124}, stdout : {"", "out"},
     stderr : {"", "err"}]

\* the timeout argument: the default and a short one
Timeouts == {120, 1}

\* subprocess.run(..., timeout=timeout) raises TimeoutExpired (line 125)
TimedOut_never(duration, timeout) == FALSE

TimedOut(duration, timeout) == duration > timeout

\* run_command(cmd, timeout): a CompletedProcess, or an exception
run_command(run, timeout) ==
    IF TimedOut(run.duration, timeout)
    THEN [raised |-> FALSE, returncode |-> 124, stdout |-> run.stdout,
          stderr |-> "Command timed out after " \o IntToStr(timeout) \o "s"]
    ELSE [raised |-> FALSE, returncode |-> run.returncode, stdout |-> run.stdout,
          stderr |-> run.stderr]

RunCommandCalls ==
    {[fn |-> "run_command", run |-> r, timeout |-> t, done |-> FALSE,
      result |-> [raised |-> FALSE, returncode |-> 0, stdout |-> "", stderr |-> ""]] :
        r \in CommandRuns, t \in Timeouts}

FnRunCommand == Return("run_command", run_command(call.run, call.timeout))

\* git_ops.py: the operations on the repository -----------------------------

\* the operations and the check flag each passes to run_git
GitOps ==
    {"get_repo_root", "current_branch", "changed_files", "merge_base", "create_branch",
     "commit", "is_clean", "changed_files_working", "diff_stat", "diff_name_status"}

\* check=False at lines 64, 125, 257 and 263; the default check=True elsewhere
GitCheck(op) == op \notin {"is_clean", "changed_files_working", "diff_stat", "diff_name_status"}

\* what a git command gives back
GitResults == [returncode : {0, 1, 128}, stdout : {"", "M\tlib/a/x.py"},
               stderr : {"", "fatal: bad revision"}]

\* run_git (lines 39-59) as the operation op calls it, and what the operation
\* makes of a result that comes back: the operations with check=False read
\* stdout whatever the exit code was
git_op(op, res) ==
    IF GitCheck(op) /\ res.returncode # 0
    THEN [raised |-> TRUE, exc |-> "GitError", command |-> "git " \o op,
          returncode |-> res.returncode, stderr |-> res.stderr, value |-> ""]
    ELSE [raised |-> FALSE, exc |-> "", command |-> "", returncode |-> 0, stderr |-> "",
          value |-> res.stdout]

GitOpCalls ==
    {[fn |-> "git_op", op |-> o, git |-> g, done |-> FALSE,
      result |-> [raised |-> FALSE, exc |-> "", command |-> "", returncode |-> 0,
                  stderr |-> "", value |-> ""]] : o \in GitOps, g \in GitResults}

FnGitOp == Return("git_op", git_op(call.op, call.git))

\* plan validation: Plan.validate and executor.validate_plan -----------------

\* a second step without an allow list whose shared_allow alone covers docs/
DocsStep == [GoodStep(2) EXCEPT !.allow = <<>>, !.shared_allow = <<"docs/**">>]

\* the plans validation is applied to: the plan files of a run and plans whose
\* second step has an empty or no allow list
ValidationPlans ==
    PlanDocs
    \cup {WithLastStep(GoodPlan(2), DocsStep),
          WithLastStep(GoodPlan(2), [DocsStep EXCEPT !.keys = @ \ {"allow"}])}

ValidationFiles ==
    ChangedSets
    \cup {<<"lib/a/x.py">>,
          <<"lib/a/x.py", "docs/a.md">>,
          <<"lib/a/x.py", "docs/a.md", "README.md">>}

\* Plan.from_dict raises without a 'stack' field (models.py lines 86-87)
PlanValidateCalls ==
    {[fn |-> "Plan.validate", plan |-> p, files |-> f, done |-> FALSE, result |-> <<>>] :
        p \in {q \in ValidationPlans : "stack" \in q.keys}, f \in ValidationFiles}

ValidatePlanCalls ==
    {[fn |-> "validate_plan", plan |-> p, files |-> f, done |-> FALSE, result |-> <<>>] :
        p \in ValidationPlans, f \in ValidationFiles}

FnPlanValidate == Return("Plan.validate", Plan_validate(call.plan, call.files))

FnValidatePlan == Return("validate_plan", validate_plan(call.plan, call.files))

\* pathspec.py: matches_pattern ----------------------------------------------

MatchPaths ==
    {"lib/auth", "lib/auth/x.py", "lib/auth/sub/y.py", "lib/authorize/x.py",
     "x/lib/auth/y.py", "lib/x.py", "lib/foo.ex", "lib/sub/foo.ex", "x/lib/foo.ex", "foo.ex"}

MatchPatterns ==
    {"lib/auth/**", "lib/**", "lib/*.ex", "*.ex", "lib/*/foo.ex", "lib/*/*.ex", "lib/x.py"}

MatchCalls ==
    {[fn |-> "matches_pattern", filepath |-> f, pattern |-> p, done |-> FALSE,
      result |-> FALSE] : f \in MatchPaths, p \in MatchPatterns}

FnMatchesPattern == Return("matches_pattern", matches_pattern(call.filepath, call.pattern))

\* pathspec.py: validate_patterns --------------------------------------------

CheckedPatterns == {"", "**", "**/*", "**/name", "lib/**", "*.py"}

\* the pattern lists of up to two patterns
PatternLists ==
    {<<>>} \cup {<<p>> : p \in CheckedPatterns}
           \cup {<<p, q>> : p \in CheckedPatterns, q \in CheckedPatterns}

ValidatePatternsCalls ==
    {[fn |-> "validate_patterns", patterns |-> ps, done |-> FALSE, result |-> <<>>] :
        ps \in PatternLists}

FnValidatePatterns == Return("validate_patterns", validate_patterns(call.patterns))

\* executor.py: check_allowlist ----------------------------------------------

AlwaysAllowed_exact(filepath) == filepath \in {".gitignore", ".pullsaw"}

\* lines 105-109: the paths pullsaw manages itself
AlwaysAllowed(filepath) ==
    filepath \in {".gitignore", ".pullsaw"} \/ StartsWith(filepath, ".pullsaw/")

\* lines 101-113; changed is the key order of changed_files_working()
RECURSIVE check_allowlist(_, _)
check_allowlist(changed, patterns) ==
    IF changed = <<>> THEN <<>>
    ELSE LET filepath == Head(changed)
         IN  (IF AlwaysAllowed(filepath) THEN <<>>
              ELSE IF ~matches_any_pattern(filepath, patterns) THEN <<filepath>>
              ELSE <<>>)
             \o check_allowlist(Tail(changed), patterns)

WorkingPaths ==
    {".gitignore", ".pullsaw", ".pullsaw/plan.yaml", ".pullsawrc", "lib/a/x.py", "README.md"}

\* working-tree listings of up to three distinct paths, in any order
WorkingListings ==
    {<<>>} \cup {<<w1>> : w1 \in WorkingPaths}
           \cup {c \in {<<w1, w2>> : w1 \in WorkingPaths, w2 \in WorkingPaths} :
                    c[1] # c[2]}
           \cup {c \in {<<w1, w2, w3>> : w1 \in {"README.md", ".pullsaw/plan.yaml"},
                                         w2 \in WorkingPaths, w3 \in WorkingPaths} :
                    c[1] # c[2] /\ c[1] # c[3] /\ c[2] # c[3]}

AllowlistPatterns == {<<"lib/a/**", "mix.exs">>, <<"*.md">>, <<>>}

CheckAllowlistCalls ==
    {[fn |-> "check_allowlist", changed |-> c, patterns |-> ps, done |-> FALSE,
      result |-> <<>>] : c \in WorkingListings, ps \in AllowlistPatterns}

FnCheckAllowlist == Return("check_allowlist", check_allowlist(call.changed, call.patterns))

\* executor.py: execute_step as a function of what its environment answers ---

\* ClaudeResult.raw: the result message of the agent, {} when there was none
RawResults ==
    {[empty |-> TRUE, has_cost |-> FALSE, total_cost_usd |-> 0],
     [empty |-> FALSE, has_cost |-> FALSE, total_cost_usd |-> 0],
     [empty |-> FALSE, has_cost |-> TRUE, total_cost_usd |-> 2],
     [empty |-> FALSE, has_cost |-> TRUE, total_cost_usd |-> 3]}

NoRaw == [empty |-> TRUE, has_cost |-> FALSE, total_cost_usd |-> 0]

Costing(c) == [empty |-> FALSE, has_cost |-> TRUE, total_cost_usd |-> c]

\* an agent invocation: its ClaudeResult and whether the working tree has
\* changes afterwards
AgentRun(success, changed, session_id, raw) ==
    [success |-> success, changed |-> changed, session_id |-> session_id, raw |-> raw]

NoAgentRun == AgentRun(FALSE, FALSE, None, NoRaw)

\* the implementation invocations; a timeout gives no session id and raw {}
ImplRuns ==
    {AgentRun(TRUE, TRUE, "sess-1", Costing(2)),
     AgentRun(TRUE, TRUE, "sess-1", [empty |-> FALSE, has_cost |-> FALSE, total_cost_usd |-> 0]),
     AgentRun(TRUE, TRUE, None, Costing(3)),
     AgentRun(FALSE, TRUE, None, NoRaw),
     AgentRun(FALSE, TRUE, "sess-1", Costing(3)),
     AgentRun(FALSE, FALSE, None, NoRaw),
     AgentRun(FALSE, FALSE, "sess-1", Costing(2))}

\* one pass of the fix loop as the environment answers it: whether
\* check_allowlist finds paths, the exit codes of the format, check and test
\* commands, and the fix invocation that follows a failure; the format
\* command exits with 0 unless the pass says otherwise
Round(outside, check_rc, test_rc, fix) ==
    [outside |-> outside, format_rc |-> 0, check_rc |-> check_rc, test_rc |-> test_rc,
     fix |-> fix]

\* the same pass with a format command that exits with rc
WithFormat(round, rc) == [round EXCEPT !.format_rc = rc]

Rounds ==
    {Round(FALSE, 0, 0, NoAgentRun),
     Round(TRUE, 0, 0, NoAgentRun),
     Round(FALSE, 0, 1, AgentRun(TRUE, TRUE, "sess-2", Costing(3))),
     Round(TRUE, 0, 1, AgentRun(TRUE, TRUE, None, NoRaw)),
     Round(FALSE, 0, 1, AgentRun(FALSE, FALSE, None, NoRaw)),
     Round(TRUE, 1, 0, AgentRun(FALSE, FALSE, "sess-2", Costing(2))),
     Round(FALSE, 1, 0, AgentRun(FALSE, TRUE, None, Costing(2)))}

\* one answer for every pass the loop can make
RoundLists == UNION {[1..n -> Rounds] : n \in 1..MaxFixAttempts}

StepConfigs == {[format_cmd |-> TRUE, check_cmd |-> TRUE],
                [format_cmd |-> FALSE, check_cmd |-> FALSE]}

ReportedCost_flat(raw) == IF raw.empty THEN 0 ELSE 1

\* lines 212-213 and 296-297: if raw: total_cost += raw.get("total_cost_usd", 0)
ReportedCost(raw) ==
    IF raw.empty THEN 0 ELSE IF raw.has_cost THEN raw.total_cost_usd ELSE 0

\* line 289: session_id or ""
ResumeSession(session_id) == IF session_id = None THEN "" ELSE session_id

\* claude_code.py lines 140-141: --resume is given only for a non-empty id
ResumeArgument(resume_session) == IF resume_session = "" THEN None ELSE resume_session

AllowlistBlocks_outside(outside) == outside

\* lines 229-230: paths outside the allowlist are only printed
AllowlistBlocks(outside) == FALSE

FormatBlocks_failed(returncode) == returncode # 0

\* lines 236-239: the exit code of the format command is only printed
FormatBlocks(returncode) == FALSE

\* line 292: outside_allowlist if outside_allowlist else None
FixOutside(outside) == outside

\* lines 299-300: a failed fix is only printed
FixAborts(success, changed) == FALSE

\* an action execute_step performs; resume and outside are the session and
\* the out-of-allowlist paths given to the agent
Act(kind) == [act |-> kind, resume |-> None, outside |-> FALSE]

Finished(actions, total_cost, raised) ==
    [actions |-> actions, cost |-> total_cost, raised |-> raised]

\* lines 226-317: the fix loop from pass `attempt` on, and the commit
RECURSIVE fix_loop(_, _, _, _)
fix_loop(c, attempt, session_id, total_cost) ==
    IF ~LoopContinues(attempt, c.max_fix_attempts)
    THEN Finished(<<Act("commit")>>, total_cost, FALSE)
    ELSE LET r == c.rounds[attempt + 1]
             check_failed == c.config.check_cmd /\ r.check_rc # 0
             runs_tests == RunsTests(check_failed)
             test_failed == runs_tests /\ ~TestsPass(r.test_rc)
             verified == <<Act("allowlist")>>
                            \o (IF c.config.format_cmd THEN <<Act("format")>> ELSE <<>>)
                            \o (IF c.config.check_cmd THEN <<Act("check")>> ELSE <<>>)
                            \o (IF runs_tests THEN <<Act("test")>> ELSE <<>>)
         IN  IF AllowlistBlocks(r.outside)
             THEN Finished(<<Act("allowlist"), Act("raise")>>, total_cost, TRUE)
             ELSE IF c.config.format_cmd /\ FormatBlocks(r.format_rc)
             THEN Finished(<<Act("allowlist"), Act("format"), Act("raise")>>,
                           total_cost, TRUE)
             ELSE IF ~check_failed /\ ~test_failed
             THEN Finished(verified \o <<Act("commit")>>, total_cost, FALSE)
             ELSE IF BoundReached(attempt, c.max_fix_attempts)
             THEN Finished(verified \o <<Act("raise")>>, total_cost, TRUE)
             ELSE LET fix == [act |-> "fix",
                              resume |-> ResumeArgument(ResumeSession(session_id)),
                              outside |-> FixOutside(r.outside)]
                      cost == total_cost + ReportedCost(r.fix.raw)
                  IN  IF FixAborts(r.fix.success, r.fix.changed)
                      THEN Finished(verified \o <<fix, Act("raise")>>, cost, TRUE)
                      ELSE LET rest == fix_loop(c, attempt + 1, session_id, cost)
                           IN  [rest EXCEPT !.actions = verified \o <<fix>> \o @]

\* lines 183-317: execute_step(step, prev_branch, original_head, config,
\* prev_topic, is_retry) where the branch can be created, the commands exit
\* and the commit succeeds
execute_step(c) ==
    IF c.is_retry
    THEN fix_loop(c, 0, None, 0)
    ELSE LET begun == <<Act("create_branch"), Act("implement")>>
             cost == ReportedCost(c.impl.raw)
         IN  IF ImplementationAborts(c.impl.success, c.impl.changed)
             THEN Finished(begun \o <<Act("raise")>>, cost, TRUE)
             ELSE LET rest == fix_loop(c, 0, c.impl.session_id, cost)
                  IN  [rest EXCEPT !.actions = begun \o @]

ExecuteStepCalls ==
    {[fn |-> "execute_step", is_retry |-> retry, impl |-> impl, rounds |-> rounds,
      max_fix_attempts |-> Len(rounds), config |-> config, done |-> FALSE,
      result |-> Finished(<<>>, 0, FALSE)] :
        retry \in BOOLEAN, impl \in ImplRuns, rounds \in RoundLists, config \in StepConfigs}

\* execute_step with a format command, whose exit code differs from pass to
\* pass
FormatStepCalls ==
    {[fn |-> "execute_step", is_retry |-> FALSE,
      impl |-> AgentRun(TRUE, TRUE, "sess-1", Costing(2)),
      rounds |-> [k \in 1..Len(rounds) |-> WithFormat(rounds[k], rcs[k])],
      max_fix_attempts |-> Len(rounds),
      config |-> [format_cmd |-> TRUE, check_cmd |-> check], done |-> FALSE,
      result |-> Finished(<<>>, 0, FALSE)] :
        rounds \in RoundLists, rcs \in [1..MaxFixAttempts -> ExitCodes], check \in BOOLEAN}

\* execute_step with a Config object whose max_fix_attempts is below 1: the
\* dataclass (config.py lines 83-93) holds any int, only loading a file
\* checks the range
LowBoundStepCalls ==
    {[fn |-> "execute_step", is_retry |-> retry, impl |-> impl, rounds |-> <<>>,
      max_fix_attempts |-> m, config |-> config, done |-> FALSE,
      result |-> Finished(<<>>, 0, FALSE)] :
        retry \in BOOLEAN, impl \in ImplRuns, m \in {0, -1}, config \in StepConfigs}

FnExecuteStep == Return("execute_step", execute_step(call))

\* executor.py: the steps execute runs, one after the other --------------------

\* lines 342 and 375-377: total_cost += step_cost for every step that returns
RECURSIVE execute(_, _)
execute(steps, total_cost) ==
    IF steps = <<>> THEN Finished(<<>>, total_cost, FALSE)
    ELSE LET first == execute_step(Head(steps))
         IN  IF first.raised
             THEN Finished(first.actions, total_cost, TRUE)
             ELSE LET rest == execute(Tail(steps), total_cost + first.cost)
                  IN  [rest EXCEPT !.actions = first.actions \o @]

\* what the steps of a run meet: two passes at most, no retry
StepRuns ==
    {[is_retry |-> FALSE, impl |-> impl, rounds |-> rounds,
      max_fix_attempts |-> Len(rounds), config |-> [format_cmd |-> FALSE, check_cmd |-> TRUE]] :
        impl \in {AgentRun(TRUE, TRUE, "sess-1", Costing(2)),
                  AgentRun(FALSE, TRUE, None, NoRaw),
                  AgentRun(FALSE, FALSE, "sess-1", Costing(2))},
        rounds \in {<<Round(FALSE, 0, 0, NoAgentRun)>>,
                    <<Round(FALSE, 0, 1, AgentRun(TRUE, TRUE, "sess-2", Costing(3))),
                      Round(TRUE, 0, 0, NoAgentRun)>>,
                    <<Round(FALSE, 0, 1, AgentRun(TRUE, TRUE, "sess-2", Costing(3))),
                      Round(TRUE, 1, 0, NoAgentRun)>>}}

ExecuteCalls ==
    {[fn |-> "execute", steps |-> steps, done |-> FALSE,
      result |-> Finished(<<>>, 0, FALSE)] :
        steps \in UNION {[1..n -> StepRuns] : n \in 1..2}}

FnExecute == Return("execute", execute(call.steps, 0))

\* models.py: Plan.to_yaml and Plan.from_yaml ----------------------------------

EmitsList_always(items) == TRUE

\* line 52: if self.shared_allow
EmitsList(items) == items # <<>>

\* line 54: if self.topic
EmitsTopic(topic) == topic # None /\ topic # ""

\* Step.to_dict, lines 44-56
to_dict(step) ==
    [keys |-> {"id", "title", "goal", "allow"}
                 \cup (IF EmitsList(step.shared_allow) THEN {"shared_allow"} ELSE {})
                 \cup (IF EmitsTopic(step.topic) THEN {"topic"} ELSE {}),
     id |-> step.id, title |-> step.title, goal |-> step.goal, allow |-> step.allow,
     shared_allow |-> step.shared_allow, topic |-> step.topic]

\* the characters that start a YAML token and so cannot start a plain scalar
YamlIndicators ==
    {",", "[", "]", "{", "}", "#", "&", "*", "!", "|", ">", "'", "%", "@", " "}

\* the characters that start a token only before a space or at the end
YamlBlockIndicators == {"-", "?", ":"}

\* [-+]?[0-9]+
IsInteger(text) ==
    \/ IsDigits(text)
    \/ Len(text) >= 2 /\ Head(text) \in {"+", "-"} /\ IsDigits(Tail(text))

\* the plain scalars YAML reads as null, a boolean or a number
YamlNulls == {"", "~", "null", "Null", "NULL"}

YamlBools == {"true", "True", "TRUE", "false", "False", "FALSE", "yes", "Yes", "YES", "no",
              "No", "NO", "on", "On", "ON", "off", "Off", "OFF"}

\* yaml.dump writes a string in single quotes when the plain text would not
\* be read back as that string (strings of one line that are no float, date
\* or document marker)
NeedsQuotes(text) ==
    \/ text \in YamlNulls \cup YamlBools
    \/ IsInteger(text)
    \/ Head(text) \in YamlIndicators
    \/ Head(text) \in YamlBlockIndicators /\ (Len(text) = 1 \/ SubSeq(text, 2, 2) = " ")
    \/ EndsWith(text, " ") \/ EndsWith(text, ":")
    \/ Contains(text, ": ") \/ Contains(text, " #")

\* a quote inside a single-quoted scalar is written twice
RECURSIVE DoubleQuotes(_)
DoubleQuotes(text) ==
    IF text = "" THEN ""
    ELSE (IF Head(text) = "'" THEN "''" ELSE Head(text)) \o DoubleQuotes(Tail(text))

\* yaml.dump of a str
ScalarText(text) == IF NeedsQuotes(text) THEN "'" \o DoubleQuotes(text) \o "'" ELSE text

\* yaml.dump of a list of str under a key, block style
ListLines(key, items) ==
    IF items = <<>> THEN <<key \o ": []">>
    ELSE <<key \o ":">> \o [k \in 1..Len(items) |-> "- " \o ScalarText(items[k])]

\* yaml.dump of one step dict, keys in insertion order (sort_keys=False)
StepLines(d) ==
    <<"id: " \o IntToStr(d.id), "title: " \o ScalarText(d.title),
      "goal: " \o ScalarText(d.goal)>>
        \o ListLines("allow", d.allow)
        \o (IF "shared_allow" \in d.keys THEN ListLines("shared_allow", d.shared_allow)
            ELSE <<>>)
        \o (IF "topic" \in d.keys THEN <<"topic: " \o ScalarText(d.topic)>> ELSE <<>>)

\* a step dict as an entry of the block sequence
EntryLines(d) ==
    LET lines == StepLines(d)
    IN  [k \in 1..Len(lines) |-> (IF k = 1 THEN "- " ELSE "  ") \o lines[k]]

RECURSIVE JoinLines(_)
JoinLines(lines) == IF lines = <<>> THEN "" ELSE Head(lines) \o "\n" \o JoinLines(Tail(lines))

\* Plan.to_yaml, lines 92-96: yaml.dump({"stack": [...]}, default_flow_style=False,
\* sort_keys=False)
to_yaml(steps) ==
    IF steps = <<>> THEN "stack: []\n"
    ELSE "stack:\n"
          \o JoinLines(Flatten([k \in 1..Len(steps) |-> EntryLines(to_dict(steps[k]))]))

\* what yaml.safe_load builds: a value with its type
YNull == [kind |-> "null", text |-> "", items |-> <<>>]

YStr(text) == [kind |-> "str", text |-> text, items |-> <<>>]

YInt(text) == [kind |-> "int", text |-> text, items |-> <<>>]

YBool(text) == [kind |-> "bool", text |-> text, items |-> <<>>]

YList(items) == [kind |-> "list", text |-> "", items |-> items]

\* the text of a single-quoted scalar
RECURSIVE Unquote(_)
Unquote(text) ==
    IF text = "" THEN ""
    ELSE IF StartsWith(text, "''") THEN "'" \o Unquote(DropChars(text, 2))
    ELSE Head(text) \o Unquote(Tail(text))

\* yaml.safe_load of a scalar or of an empty flow sequence
ParseScalar(text) ==
    IF text = "[]" THEN YList(<<>>)
    ELSE IF Len(text) >= 2 /\ StartsWith(text, "'") /\ EndsWith(text, "'")
    THEN YStr(Unquote(SubSeq(text, 2, Len(text) - 1)))
    ELSE IF IsInteger(text) THEN YInt(text)
    ELSE IF text \in YamlNulls THEN YNull
    ELSE IF text \in YamlBools THEN YBool(text)
    ELSE YStr(text)

\* str.splitlines of a text that ends with a line break
RECURSIVE splitlines(_)
splitlines(text) ==
    IF text = "" THEN <<>>
    ELSE LET end == CHOOSE i \in 1..Len(text) :
                        /\ SubSeq(text, i, i) = "\n"
                        /\ \A j \in 1..(i - 1) : SubSeq(text, j, j) # "\n"
         IN  <<SubSeq(text, 1, end - 1)>> \o splitlines(DropChars(text, end))

\* a loaded mapping before any of its keys is read
EmptyMapping ==
    [keys |-> {}, id |-> YNull, title |-> YNull, goal |-> YNull, allow |-> YNull,
     shared_allow |-> YNull, topic |-> YNull]

\* the key of a 'key: value' or 'key:' line
PairKey(line) ==
    SubSeq(line, 1, (CHOOSE i \in 1..Len(line) :
                        /\ SubSeq(line, i, i) = ":"
                        /\ \A j \in 1..(i - 1) : SubSeq(line, j, j) # ":") - 1)

\* its value; the value of 'key:' is null until entries follow
PairValue(line) ==
    LET rest == DropChars(line, Len(PairKey(line)) + 1)
    IN  IF rest = "" THEN YNull ELSE ParseScalar(DropChars(rest, 1))

WithPair(d, line) ==
    [d EXCEPT !.keys = @ \cup {PairKey(line)}, ![PairKey(line)] = PairValue(line)]

WithEntry(d, key, text) ==
    [d EXCEPT ![key] = YList((IF @.kind = "list" THEN @.items ELSE <<>>)
                                \o <<ParseScalar(text)>>)]

\* yaml.safe_load of the lines below 'stack:': the mappings of the sequence
RECURSIVE LoadEntries(_, _, _)
LoadEntries(lines, loaded, key) ==
    IF lines = <<>> THEN loaded
    ELSE LET line == Head(lines)
             n == Len(loaded)
         IN  IF StartsWith(line, "- ")
             THEN LoadEntries(Tail(lines),
                              Append(loaded, WithPair(EmptyMapping, DropChars(line, 2))),
                              PairKey(DropChars(line, 2)))
             ELSE IF StartsWith(line, "  - ")
             THEN LoadEntries(Tail(lines),
                              [loaded EXCEPT ![n] = WithEntry(@, key, DropChars(line, 4))],
                              key)
             ELSE LoadEntries(Tail(lines),
                              [loaded EXCEPT ![n] = WithPair(@, DropChars(line, 2))],
                              PairKey(DropChars(line, 2)))

\* Step.from_dict (lines 32-42) on a loaded mapping
StepFromLoaded(data) ==
    [id |-> Get(data, "id", YInt("0")),
     title |-> Get(data, "title", YStr("")),
     goal |-> Get(data, "goal", YStr("")),
     allow |-> Get(data, "allow", YList(<<>>)),
     shared_allow |-> Get(data, "shared_allow", YList(<<>>)),
     topic |-> Get(data, "topic", YNull)]

\* Plan.from_yaml, lines 72-81, of a file holding the text
from_yaml(text) ==
    LET lines == splitlines(text)
    IN  IF lines = <<>> \/ ~StartsWith(Head(lines), "stack:")
        THEN [raised |-> TRUE, steps |-> <<>>]
        ELSE LET loaded == IF Head(lines) = "stack: []" THEN <<>>
                           ELSE LoadEntries(Tail(lines), <<>>, "")
             IN  [raised |-> FALSE,
                  steps |-> [k \in 1..Len(loaded) |-> StepFromLoaded(loaded[k])]]

\* the Step objects of the plans written out
WrittenSteps ==
    {[id |-> 1, title |-> "Step 1", goal |-> "Goal 1", allow |-> <<"lib/a/**">>,
      shared_allow |-> <<"mix.exs">>, topic |-> "topic-1"],
     [id |-> 2, title |-> "Step 2", goal |-> "Goal 2", allow |-> <<"*.py", "**">>,
      shared_allow |-> <<>>, topic |-> None],
     [id |-> 0, title |-> "", goal |-> "", allow |-> <<>>, shared_allow |-> <<>>,
      topic |-> ""],
     [id |-> 12, title |-> "123", goal |-> "it's", allow |-> <<"7", "true">>,
      shared_allow |-> <<"">>, topic |-> "null"],
     [id |-> 3, title |-> "Fix: parser", goal |-> "keep a #b", allow |-> <<"- x", "'q'">>,
      shared_allow |-> <<"~", "lib/b/*.ex">>, topic |-> None]}

ToYamlCalls ==
    {[fn |-> "Plan.to_yaml", steps |-> steps, done |-> FALSE,
      result |-> [data |-> <<>>, text |-> "", raised |-> FALSE, steps |-> <<>>]] :
        steps \in {<<>>} \cup UNION {[1..n -> WrittenSteps] : n \in 1..2}}

\* to_yaml, the file, from_yaml
FnToYaml ==
    LET text == to_yaml(call.steps)
        back == from_yaml(text)
    IN  Return("Plan.to_yaml",
               [data |-> [k \in 1..Len(call.steps) |-> to_dict(call.steps[k])],
                text |-> text, raised |-> back.raised, steps |-> back.steps])

\* git_ops.py: sanitize_branch_name -------------------------------------------

NameChars == {"a", "-", ".", "/", " ", "~"}

MaxNameLen == 5

\* the names of up to n characters
RECURSIVE Names(_)
Names(n) ==
    IF n = 0 THEN {""}
    ELSE Names(n - 1) \cup {name \o c : name \in Names(n - 1), c \in NameChars}

SanitizeCalls ==
    {[fn |-> "sanitize_branch_name", name |-> name, done |-> FALSE,
      result |-> [once |-> "", twice |-> ""]] : name \in Names(MaxNameLen)}

\* the function applied to the name and to its own result
FnSanitize ==
    Return("sanitize_branch_name",
           [once |-> sanitize_branch_name(call.name),
            twice |-> sanitize_branch_name(sanitize_branch_name(call.name))])

\* session.py and main.py: --continue -----------------------------------------

\* session.py lines 83-92 and main.py lines 77-85: the head and the step
\* derived from the current branch, or the error
derive_continue(current) ==
    IF ContinueMatches(current) = {}
    THEN [failed |-> TRUE, head |-> None, start_from |-> 0]
    ELSE [failed |-> FALSE, head |-> DerivedHead(current),
          start_from |-> DerivedStart(current)]

ContinueHeads == {"feat", "my-feature", "a-step-1", "v1.0", "fix/x", "rel 2"}

ContinueStepIds == {1, 3, 12}

\* the branches a user can be on that no step created
OtherBranches == {"main", "feat", "feat-step-", "-step-1", "feat-step-x", "feat-step-1a"}

\* the current branch is the one execute_step created for the step of the
\* head (executor.py line 189, create_branch), or another one
ContinueCalls ==
    {[fn |-> "--continue", created |-> TRUE, head |-> head, step_id |-> id,
      current |-> sanitize_branch_name(StepBranchName(head, IntToStr(id))),
      done |-> FALSE, result |-> [failed |-> FALSE, head |-> None, start_from |-> 0]] :
        head \in ContinueHeads, id \in ContinueStepIds}
    \cup
    {[fn |-> "--continue", created |-> FALSE, head |-> None, step_id |-> 0,
      current |-> current,
      done |-> FALSE, result |-> [failed |-> FALSE, head |-> None, start_from |-> 0]] :
        current \in OtherBranches}

FnContinue == Return("--continue", derive_continue(call.current))

\* config.py: validate_config_data and Config._from_yaml -----------------------

\* CONFIG_SCHEMA, lines 20-28, in its key order
ConfigKeys ==
    <<"test_cmd", "format_cmd", "check_cmd", "max_fix_attempts", "strict", "test_timeout",
      "command_timeout">>

SchemaType(key) ==
    IF key \in {"test_cmd", "format_cmd", "check_cmd"} THEN "list"
    ELSE IF key = "strict" THEN "bool" ELSE "int"

SchemaNullable(key) == key \in {"format_cmd", "check_cmd"}

SchemaMin(key) == IF key = "max_fix_attempts" THEN 1 ELSE 10

SchemaMax(key) == IF key = "max_fix_attempts" THEN 20 ELSE 3600

\* type(value).__name__
TypeName(value) == IF value.kind = "null" THEN "NoneType" ELSE value.kind

\* isinstance(value, expected_type): bool is a subclass of int
IsInstance(value, type) ==
    \/ value.kind = type
    \/ type = "int" /\ value.kind = "bool"

\* the number an int or a bool compares as
IntValue(value) ==
    IF value.kind = "bool" THEN (IF value.text = "true" THEN 1 ELSE 0)
    ELSE StrToInt(value.text)

\* f"{value}" of an int or a bool
ValueText(value) ==
    IF value.kind = "bool" THEN (IF value.text = "true" THEN "True" ELSE "False")
    ELSE value.text

\* the keys of the mapping, in the order of the file
RECURSIVE DataKeys(_)
DataKeys(data) == IF data = <<>> THEN {} ELSE {Head(data).key} \cup DataKeys(Tail(data))

DataValue(data, key) == (CHOOSE k \in 1..Len(data) : data[k].key = key)

\* lines 40-42
RECURSIVE UnknownKeyErrors(_)
UnknownKeyErrors(data) ==
    IF data = <<>> THEN <<>>
    ELSE (IF \E k \in 1..Len(ConfigKeys) : ConfigKeys[k] = Head(data).key THEN <<>>
          ELSE <<"Unknown config key: '" \o Head(data).key \o "'">>)
         \o UnknownKeyErrors(Tail(data))

\* lines 67-71
RECURSIVE ItemErrors(_, _, _)
ItemErrors(key, items, i) ==
    IF i > Len(items) THEN <<>>
    ELSE (IF IsInstance(items[i], "str") THEN <<>>
          ELSE <<"'" \o key \o "[" \o IntToStr(i - 1) \o "]' must be str, got "
                    \o TypeName(items[i])>>)
         \o ItemErrors(key, items, i + 1)

\* lines 49-78: the messages for one key of the schema that the data holds
FieldErrors(key, value) ==
    IF value.kind = "null"
    THEN (IF SchemaNullable(key) THEN <<>> ELSE <<"'" \o key \o "' cannot be null">>)
    ELSE IF ~IsInstance(value, SchemaType(key))
    THEN <<"'" \o key \o "' must be " \o SchemaType(key) \o ", got " \o TypeName(value)>>
    ELSE IF SchemaType(key) = "list" THEN ItemErrors(key, value.items, 1)
    ELSE IF SchemaType(key) = "int"
    THEN (IF IntValue(value) < SchemaMin(key)
          THEN <<"'" \o key \o "' must be >= " \o IntToStr(SchemaMin(key)) \o ", got "
                    \o ValueText(value)>>
          ELSE <<>>)
         \o (IF IntValue(value) > SchemaMax(key)
             THEN <<"'" \o key \o "' must be <= " \o IntToStr(SchemaMax(key)) \o ", got "
                       \o ValueText(value)>>
             ELSE <<>>)
    ELSE <<>>

\* validate_config_data, lines 31-80
validate_config_data(data) ==
    UnknownKeyErrors(data)
        \o Flatten([k \in 1..Len(ConfigKeys) |->
                        IF ConfigKeys[k] \in DataKeys(data)
                        THEN FieldErrors(ConfigKeys[k],
                                         data[DataValue(data, ConfigKeys[k])].value)
                        ELSE <<>>])

\* Config._from_yaml, lines 116-128: ConfigValidationError(errors), or the Config
from_config_yaml(data) ==
    LET errors == validate_config_data(data)
    IN  [errors |-> errors,
         raised |-> IF errors # <<>> THEN "ConfigValidationError" ELSE "",
         carried |-> IF errors # <<>> THEN errors ELSE <<>>]

Entry(key, value) == [key |-> key, value |-> value]

\* what a config.yml can hold under a key
ConfigEntries ==
    {Entry("test_cmd", YList(<<YStr("pytest")>>)),
     Entry("test_cmd", YNull),
     Entry("test_cmd", YStr("pytest")),
     Entry("test_cmd", YList(<<YInt("1"), YStr("x"), YBool("true")>>)),
     Entry("format_cmd", YNull),
     Entry("format_cmd", YList(<<YStr("ruff"), YNull>>)),
     Entry("check_cmd", YStr("make")),
     Entry("max_fix_attempts", YInt("5")),
     Entry("max_fix_attempts", YInt("0")),
     Entry("max_fix_attempts", YInt("21")),
     Entry("max_fix_attempts", YBool("true")),
     Entry("max_fix_attempts", YStr("3")),
     Entry("max_fix_attempts", YNull),
     Entry("strict", YBool("true")),
     Entry("strict", YInt("1")),
     Entry("strict", YNull),
     Entry("test_timeout", YInt("300")),
     Entry("test_timeout", YInt("9")),
     Entry("test_timeout", YInt("3601")),
     Entry("test_timeout", YBool("false")),
     Entry("command_timeout", YInt("120")),
     Entry("command_timeout", YInt("5")),
     Entry("retries", YInt("3")),
     Entry("tests", YList(<<YStr("pytest")>>))}

\* mappings of up to three keys
ConfigData ==
    {<<>>} \cup {<<e>> : e \in ConfigEntries}
           \cup {d \in {<<e1, e2>> : e1 \in ConfigEntries, e2 \in ConfigEntries} :
                    d[1].key # d[2].key}
           \cup {d \in {<<e1, e2, e3>> :
                            e1 \in {e \in ConfigEntries : e.key \in {"retries", "strict"}},
                            e2 \in ConfigEntries, e3 \in ConfigEntries} :
                    d[1].key # d[2].key /\ d[1].key # d[3].key /\ d[2].key # d[3].key}

ConfigCalls ==
    {[fn |-> "Config._from_yaml", data |-> data, done |-> FALSE,
      result |-> [errors |-> <<>>, raised |-> "", carried |-> <<>>]] : data \in ConfigData}

FnConfig == Return("Config._from_yaml", from_config_yaml(call.data))

\* ---------------------------------------------------------------------------

\* executor.py: the branches execute_step gives the steps of a plan ---------------

\* lines 185-199: the branch of a step is create_branch's sanitized form of
\* f"{original_head}-step-{step_id}", with step_id = step.get("id", "?")
step_branch(head, step) == sanitize_branch_name(StepBranchName(head, StepIdStr(step)))

\* main lines 240-252 and executor lines 348-375: the plan is validated with
\* validate_plan against the changed files (main stops when there are none),
\* then every step gets its branch
plan_branches(head, plan, files) ==
    [errors |-> validate_plan(plan, files),
     branches |-> [k \in 1..Len(plan.stack) |-> step_branch(head, plan.stack[k])]]

\* the validated plans and a plan whose two steps carry the same id
BranchPlans ==
    {q \in ValidationPlans : "stack" \in q.keys}
    \cup {WithLastStep(GoodPlan(2), [GoodStep(2) EXCEPT !.id = 1])}

PlanBranchesCalls ==
    {[fn |-> "plan_branches", head |-> h, plan |-> p, files |-> f, done |-> FALSE,
      result |-> [errors |-> <<>>, branches |-> <<>>]] :
        h \in Heads, p \in BranchPlans, f \in ValidationFiles \ {<<>>}}

FnPlanBranches ==
    Return("plan_branches", plan_branches(call.head, call.plan, call.files))

FnInit ==
    /\ NoRun
    /\ \/ call \in RunCommandCalls
       \/ call \in GitOpCalls
       \/ call \in PlanValidateCalls
       \/ call \in ValidatePlanCalls
       \/ call \in MatchCalls
       \/ call \in ValidatePatternsCalls
       \/ call \in CheckAllowlistCalls
       \/ call \in ExecuteStepCalls
       \/ call \in FormatStepCalls
       \/ call \in LowBoundStepCalls
       \/ call \in ExecuteCalls
       \/ call \in ToYamlCalls
       \/ call \in SanitizeCalls
       \/ call \in ContinueCalls
       \/ call \in ConfigCalls
       \/ call \in PlanBranchesCalls

FnNext == FnRunCommand \/ FnGitOp \/ FnPlanValidate \/ FnValidatePlan \/ FnMatchesPattern
          \/ FnValidatePatterns \/ FnCheckAllowlist \/ FnExecuteStep \/ FnExecute
          \/ FnToYaml \/ FnSanitize \/ FnContinue \/ FnConfig \/ FnPlanBranches

FnSpec == FnInit /\ [][FnNext]_vars

(***************************************************************************)
(* Properties.                                                             *)
(***************************************************************************)

StepPcs == {"step_begin", "implement", "loop_head", "format", "check", "test",
            "decide", "fix", "commit", "blocked"}

MaxAttempts == env.config.max_fix_attempts

\* the plan positions execute has a mode for
Positions == DOMAIN ex.modes

Executed(i) == ex.modes[i] \in {"normal", "retry"}

CreatedFor(i) == {k \in 1..Len(created) : created[k].step = i}
CommitsFor(i) == {k \in 1..Len(commits) : commits[k].step = i}

\* no branch and no commit exists for plan position i
NoEffects(i) == CreatedFor(i) = {} /\ CommitsFor(i) = {}

\* the branch execute records for position i once the step is processed:
\* what create_branch returned, the name retry mode returns, or the name
\* inferred for a step that is already done or skipped
StepReturnedBranch(i) ==
    CASE ex.modes[i] = "normal" -> created[CHOOSE k \in CreatedFor(i) : TRUE].name
      [] ex.modes[i] = "retry" -> StepBranchName(env.head, StepIdStr(Steps[i]))
      [] OTHER -> StepBranchName(env.head, IntToStr(ExecStepId(i)))

\* the current verification attempt ended in a check or test failure
AttemptFailed == pc = "decide" /\ (st.check_failed \/ st.test_failed)

\* the check (when configured) and the tests exited 0 in the current attempt
PassingAttempt ==
    /\ st.test_ran /\ st.test_rc = 0
    /\ env.config.check_cmd => (st.check_ran /\ st.check_rc = 0)

----------------------------------------------------------------------------
\* C1: one run of execute_step makes at most N verification attempts and at
\* most N-1 fix invocations (N = max_fix_attempts); a failed attempt before
\* the N-th goes on to a fix, a failed N-th attempt raises RuntimeError
\* naming the step with N attempts and N-1 fixes made, and nothing is
\* committed for the step.
C1_Counts ==
    /\ st.verifs <= MaxAttempts
    /\ st.fixes <= MaxAttempts - 1
    /\ st.last = "max_attempts" =>
          /\ st.verifs = MaxAttempts
          /\ st.fixes = MaxAttempts - 1
          /\ pc = "halt" /\ out.status = "raised" /\ out.exc = "RuntimeError"
          /\ StartsWith(out.msg, "Step " \o IntToStr(ExecStepId(ex.i)) \o " failed")
          /\ CommitsFor(ex.i) = {}

C1_Step ==
    /\ (AttemptFailed /\ st.verifs < MaxAttempts) => pc' = "fix"
    /\ (AttemptFailed /\ st.verifs >= MaxAttempts) =>
          /\ pc' = "halt" /\ out'.exc = "RuntimeError" /\ st'.last = "max_attempts"
          /\ commits' = commits
    /\ st'.fixes > st.fixes => (pc = "fix" /\ st'.fixes = st.fixes + 1)

C1_FixLoopBound == [](C1_Counts) /\ [][C1_Step]_vars

C1_Witness ==
    /\ st.last = "max_attempts"
    /\ MaxAttempts = MaxFixAttempts
    /\ st.verifs = MaxFixAttempts /\ st.fixes = MaxFixAttempts - 1

----------------------------------------------------------------------------
\* C2: commit is called only directly after a verification attempt whose
\* check (when configured) exited 0 and whose tests ran and exited 0: the
\* passing test run is the last thing execute_step did before the commit.
C2_State ==
    /\ pc = "commit" => (st.last = "test" /\ PassingAttempt)
    /\ st.last \in {"commit", "commit_failed"} => PassingAttempt

C2_Step ==
    /\ commits' # commits => (pc = "commit" /\ st.last = "test" /\ PassingAttempt)
    /\ st'.last \in {"commit", "commit_failed"} /\ st.last # st'.last =>
          (pc = "commit" /\ st.last = "test")

C2_CommitAfterPass == [](C2_State) /\ [][C2_Step]_vars

C2_Witness ==
    /\ st.last = "commit" /\ commits # <<>>
    /\ env.config.check_cmd /\ st.check_rc = 0 /\ st.test_rc = 0
    /\ st.fixes >= 1

----------------------------------------------------------------------------
\* C3: every branch execute_step creates starts from base for the first
\* plan position and otherwise from the branch recorded for the position
\* before it (returned by execute_step, or inferred for a done or skipped
\* step); branches are created in plan order, one per position.
C3_BranchChain ==
    \A k \in 1..Len(created) :
        LET c == created[k]
        IN  /\ c.step \in Positions /\ ex.modes[c.step] = "normal"
            /\ c.from_ref = IF c.step = 1 THEN env.base
                            ELSE StepReturnedBranch(c.step - 1)
            /\ c.step > 1 => c.from_ref = ex.branches[c.step - 1]
            /\ \A k2 \in 1..Len(created) :
                  k < k2 => (c.step < created[k2].step /\ c.name # created[k2].name)
            /\ (k > 1 /\ created[k - 1].step = c.step - 1) =>
                  c.from_ref = created[k - 1].name

C3_Witness ==
    /\ Len(created) = 2
    /\ created[1].step = 2 /\ ex.modes[1] = "skipped"
    /\ created[2].step = 3 /\ created[2].from_ref = created[1].name

----------------------------------------------------------------------------
\* C4 (as claimed): on a resumed run the executed step whose id is
\* start_from runs in retry mode, without create_branch and without the
\* implementation agent, and every later executed step runs in normal mode.
C4_ResumeRetries ==
    args.continue_run =>
        \A i \in Positions :
            /\ (Executed(i) /\ ExecStepId(i) = env.start_from) =>
                  /\ ex.modes[i] = "retry"
                  /\ i = ex.i => (st.branch_calls = 0 /\ st.impls = 0)
            /\ (Executed(i) /\ ExecStepId(i) > env.start_from) => ex.modes[i] = "normal"

----------------------------------------------------------------------------
\* C5: a step with id below start_from is never passed to execute_step and
\* gets the branch '<head>-step-<id>'; with skip_current neither is the step
\* with id = start_from; a normal return holds one branch per plan position,
\* in plan order.
C5_ResumeSkips ==
    /\ \A i \in Positions :
          /\ ExecStepId(i) < env.start_from =>
                (ex.modes[i] \in {"pending", "done"} /\ NoEffects(i))
          /\ (args.skip /\ ExecStepId(i) = env.start_from) =>
                (ex.modes[i] \in {"pending", "skipped"} /\ NoEffects(i))
          /\ ex.modes[i] \in {"done", "skipped"} =>
                ex.branches[i] = StepBranchName(env.head, IntToStr(ExecStepId(i)))
    /\ pc \in StepPcs => (ex.i \in Positions /\ Executed(ex.i))
    /\ out.status = "done" =>
          /\ Len(out.branches) = Len(Steps)
          /\ \A i \in 1..Len(Steps) : out.branches[i] = StepReturnedBranch(i)

C5_Witness ==
    /\ out.status = "done"
    /\ env.start_from = 2 /\ Len(Steps) = 3
    /\ ex.modes = <<"done", "retry", "normal">>

----------------------------------------------------------------------------
\* C6: the drift check runs once every step is processed and diffs the
\* original head against the final branch; the run raises iff the diff is
\* non-empty and strict is set, and otherwise returns the branch list; the
\* commits and branches of the run are untouched by it.
C6_State ==
    ex.diff.result # "none" =>
        /\ \A i \in Positions : ex.modes[i] # "pending"
        /\ Len(ex.branches) = Len(Steps)
        /\ ex.diff.ref1 = env.head
        /\ ex.diff.ref2 = ex.branches[Len(Steps)]
        /\ (out.status = "raised") <=> (ex.diff.result = "changes" /\ env.config.strict)
        /\ out.status = "raised" =>
              (out.exc = "RuntimeError" /\ out.msg = "Drift detected in strict mode")
        /\ out.status # "raised" =>
              (out.status = "done" /\ out.code = 0 /\ out.branches = ex.branches)
        /\ \A i \in Positions : Executed(i) => Cardinality(CommitsFor(i)) = 1

C6_Step ==
    ex'.diff # ex.diff =>
        /\ ex.diff.result = "none"
        /\ commits' = commits /\ created' = created /\ repo' = repo

C6_DriftCheck == [](C6_State) /\ [][C6_Step]_vars

C6_Witness ==
    /\ ex.diff.result = "changes" /\ env.config.strict
    /\ out.status = "raised"
    /\ Len(commits) >= 2

----------------------------------------------------------------------------
\* C7: when execute_step raises for a step the run stops there: no later
\* step is processed (no branch, no commit, no mode), the drift check is not
\* run, and the branches and commits of the earlier steps stay as they were.
C7_State ==
    (out.status = "raised" /\ ex.modes # <<>> /\ ex.diff.result = "none") =>
        /\ pc = "halt"
        /\ ex.i \in Positions /\ Executed(ex.i)
        /\ Len(ex.branches) = ex.i - 1
        /\ \A j \in Positions :
              /\ j > ex.i => (ex.modes[j] = "pending" /\ NoEffects(j))
              /\ (j < ex.i /\ Executed(j)) => Cardinality(CommitsFor(j)) = 1
              /\ (j < ex.i /\ ex.modes[j] = "normal") =>
                    (\E k \in CreatedFor(j) : created[k].name \in repo.refs)

C7_Step ==
    /\ (out.status = "running" /\ out'.status = "raised") =>
          (commits' = commits /\ repo' = repo /\ created' = created /\ pc' = "halt")
    /\ out.status # "running" => UNCHANGED vars

C7_ErrorHalts == [](C7_State) /\ [][C7_Step]_vars

C7_Witness ==
    /\ out.status = "raised" /\ ex.diff.result = "none"
    /\ Len(Steps) = 3 /\ ex.i = 2 /\ ex.modes = <<"normal", "normal", "pending">>
    /\ Len(commits) = 1 /\ Len(created) = 2

----------------------------------------------------------------------------
\* C8: a validation result with a fatal entry ends the run before any
\* branch, agent invocation or commit; a result with only non-fatal entries
\* has them printed and the run goes on to execution.
C8_State ==
    /\ FatalErrors(env.errors) # {} =>
          /\ pc = "halt" /\ out.status = "exit" /\ out.code = 1
          /\ created = <<>> /\ commits = <<>> /\ st = NoStep /\ ex = NoExecute
    /\ (pc \in StepPcs \cup {"exec_loop"} \/ created # <<>> \/ commits # <<>>) =>
          FatalErrors(env.errors) = {}

C8_Step ==
    IF pc = "main_validate"
    THEN LET errors == validate_plan(env.plan, env.changed_files)
         IN  /\ env'.errors = errors
             /\ FatalErrors(errors) = {} =>
                   /\ pc' = "main_confirm" /\ out' = out
                   /\ Len(env'.printed) = Cardinality(Warnings(errors))
                   /\ \A k \in Warnings(errors) :
                         \E j \in 1..Len(env'.printed) : env'.printed[j] = errors[k].message
    ELSE pc \in StepPcs \cup {"main_confirm", "exec_loop"} =>
            /\ env'.errors = env.errors /\ env'.plan = env.plan
            /\ env'.changed_files = env.changed_files

C8_ValidationGate == [](C8_State) /\ [][C8_Step]_vars

C8_Witness ==
    /\ env.printed # <<>>
    /\ FatalErrors(env.errors) = {}
    /\ commits # <<>>

----------------------------------------------------------------------------
\* C9: a failed implementation with an unchanged working tree raises before
\* any verification, fix or commit; a failed implementation that left changes
\* enters the verification loop in the state a successful one enters it.
C9_State ==
    /\ st.impl = "failed_clean" =>
          /\ pc = "halt" /\ out.status = "raised" /\ out.exc = "RuntimeError"
          /\ StartsWith(out.msg, "Step " \o IntToStr(ExecStepId(ex.i)) \o " implementation")
          /\ st.verifs = 0 /\ st.fixes = 0 /\ CommitsFor(ex.i) = {}
    /\ st.impl = "failed_changes" => ~(st.last = "implement" /\ out.status = "raised")

C9_Step ==
    (pc = "implement" /\ st'.impl \in {"success", "failed_changes"}) =>
        /\ pc' = "loop_head" /\ out' = out
        /\ [st' EXCEPT !.impl = "success", !.session_id = None]
              = [st EXCEPT !.impl = "success", !.session_id = None,
                           !.impls = 1, !.last = "implement"]

C9_ImplementationFailure == [](C9_State) /\ [][C9_Step]_vars

C9_Witness ==
    /\ st.impl = "failed_changes"
    /\ st.last = "commit" /\ CommitsFor(ex.i - 1) # {}

----------------------------------------------------------------------------
\* C10: in every verification attempt the tests run iff the check is not
\* configured or exited 0 in that attempt; an unconfigured check is not run
\* and is no failure; a failed check goes to a fix or to the abort at the
\* bound with no test run in that attempt.
AttemptOver ==
    \/ pc \in {"decide", "fix", "commit"}
    \/ st.last \in {"fix", "max_attempts", "commit", "commit_failed"}

C10_State ==
    /\ AttemptOver =>
          (st.test_ran <=> (~env.config.check_cmd \/ (st.check_ran /\ st.check_rc = 0)))
    /\ ~env.config.check_cmd => (~st.check_ran /\ ~st.check_failed)
    /\ (pc = "commit" /\ ~env.config.check_cmd) => (st.test_ran /\ st.test_rc = 0)

C10_Step ==
    (pc = "decide" /\ st.check_ran /\ st.check_rc # 0) =>
        /\ ~st.test_ran
        /\ pc' \in {"fix", "halt"}
        /\ pc' = "halt" => (out'.exc = "RuntimeError" /\ st.verifs = MaxAttempts)

C10_CheckGatesTests == [](C10_State) /\ [][C10_Step]_vars

C10_Witness ==
    /\ pc = "fix"
    /\ st.check_ran /\ st.check_rc = 1 /\ ~st.test_ran
    /\ st.verifs = 2
----------------------------------------------------------------------------
\* the lines of a text
RECURSIVE Lines(_)
Lines(s) ==
    IF ~Contains(s, "\n") THEN <<s>>
    ELSE LET cut == CHOOSE i \in 1..Len(s) :
                        /\ SubSeq(s, i, i) = "\n"
                        /\ \A j \in 1..(i - 1) : SubSeq(s, j, j) # "\n"
         IN  <<SubSeq(s, 1, cut - 1)>> \o Lines(DropChars(s, cut))

\* the topic of plan position i: its own, or '<head>-step-<id>'
TopicOf(i) ==
    IF "topic" \in Steps[i].keys THEN Steps[i].topic
    ELSE env.head \o "-step-" \o IntToStr(Steps[i].id)

\* the commit c carries the metadata of its plan position
CommitMetadata(c) ==
    LET step == Steps[c.step]
        lines == Lines(c.message)
        relative == {k \in 1..Len(lines) : StartsWith(lines[k], "Relative:")}
    IN  /\ lines[1] = "step(" \o IntToStr(step.id) \o "): " \o step.title
        /\ \E k \in 1..Len(lines) : lines[k] = "Topic: " \o TopicOf(c.step)
        /\ (relative # {}) <=> (c.step > 1)
        /\ \A k \in relative : lines[k] = "Relative: " \o TopicOf(c.step - 1)

\* C11: the message of every commit of a step starts with
\* 'step(<id>): <title>' and has a line 'Topic: <topic>' with the step's own
\* topic or '<head>-step-<id>'; it has a 'Relative:' line iff the step is not
\* the first of the plan, and that line names the topic of the step before
\* it, whether that step was executed, already done or skipped.
C11_Step ==
    commits' # commits =>
        /\ Len(commits') = Len(commits) + 1
        /\ SubSeq(commits', 1, Len(commits)) = commits
        /\ CommitMetadata(commits'[Len(commits')])

----------------------------------------------------------------------------
\* every executed position before i is committed, every position before i is
\* processed, and nothing has happened for a position after i
OnlyStepInProgress(i) ==
    /\ i \in Positions /\ Executed(i)
    /\ \A j \in Positions :
          /\ j < i => ex.modes[j] # "pending"
          /\ (j < i /\ Executed(j)) => Cardinality(CommitsFor(j)) = 1
          /\ j > i => (ex.modes[j] = "pending" /\ NoEffects(j))

\* C12: steps run one at a time in plan order: while execute_step is at work
\* on a position every earlier executed position is committed and no later
\* position has a branch or a commit; a create_branch call and an agent
\* invocation act for that position only, after the commits of the earlier
\* ones; branches and commits appear in plan order.
C12_State ==
    /\ pc \in StepPcs => OnlyStepInProgress(ex.i)
    /\ \A k \in 1..Len(commits), k2 \in 1..Len(commits) :
          k < k2 => commits[k].step < commits[k2].step
    /\ \A k \in 1..Len(created), k2 \in 1..Len(created) :
          k < k2 => created[k].step < created[k2].step

C12_Step ==
    /\ (st'.branch_calls > st.branch_calls \/ st'.impls > st.impls \/ st'.fixes > st.fixes) =>
          /\ pc \in StepPcs /\ OnlyStepInProgress(ex.i)
          /\ ex'.i = ex.i /\ commits' = commits
          /\ created' # created => created'[Len(created')].step = ex.i
    /\ commits' # commits =>
          (pc \in StepPcs /\ commits'[Len(commits')].step = ex.i /\ ex'.i > ex.i)
    /\ ex'.i >= ex.i \/ ex = NoExecute \/ ex' = NoExecute

C12_Sequential == [](C12_State) /\ [][C12_Step]_vars

C12_Witness ==
    /\ pc = "loop_head" /\ st.impls = 1 /\ ex.i = 3
    /\ ex.modes = <<"normal", "normal", "normal">>
    /\ Len(commits) = 2 /\ Len(created) = 3
----------------------------------------------------------------------------
\* C13 (as claimed): every run of a format, check or test command gives
\* execute_step a result, with exit code 124 when the command outlives the
\* timeout, so execute_step never stays waiting for a verification command.
C13_Step ==
    pc \in {"format", "check", "test"} => pc' \in {"check", "test", "decide", "commit"}

C13_StreamingTimeout == [](pc # "blocked") /\ [][C13_Step]_vars
----------------------------------------------------------------------------
\* C14: run_command never raises for a command that outlives the timeout: it
\* returns exit code 124 and a stderr text that mentions the timeout; for a
\* command that ends in time it returns the command's exit code and output.
C14_BufferedTimeout ==
    (call.fn = "run_command" /\ call.done) =>
        LET r == call.result
        IN  /\ ~r.raised
            /\ IF call.run.duration > call.timeout
               THEN r.returncode = 124 /\ Contains(r.stderr, "timed out")
               ELSE /\ r.returncode = call.run.returncode
                    /\ r.stdout = call.run.stdout
                    /\ r.stderr = call.run.stderr

C14_Witness ==
    /\ call.fn = "run_command" /\ call.done
    /\ call.run.duration = 121 /\ call.timeout = 120 /\ call.run.returncode = 0
    /\ call.result.returncode = 124
----------------------------------------------------------------------------
\* C15 (as claimed): every repository operation whose git command exits
\* non-zero raises GitError carrying the command, the exit code and stderr,
\* and returns no normal result.
C15_GitFailuresRaise ==
    (call.fn = "git_op" /\ call.done /\ call.git.returncode # 0) =>
        /\ call.result.raised /\ call.result.exc = "GitError"
        /\ call.result.command = "git " \o call.op
        /\ call.result.returncode = call.git.returncode
        /\ call.result.stderr = call.git.stderr
----------------------------------------------------------------------------
\* a validation (Plan.validate or executor.validate_plan) has returned
Validated == call.fn \in {"Plan.validate", "validate_plan"} /\ call.done

\* the steps of the validated plan document
CallSteps == IF "stack" \in call.plan.keys THEN call.plan.stack ELSE <<>>

\* the combined allow and shared_allow patterns of all steps
CombinedPatterns == Flatten([k \in 1..Len(CallSteps) |-> StepPatterns(CallSteps[k])])

\* the changed files that match none of the combined patterns
Unmatched ==
    {j \in 1..Len(call.files) : ~matches_any_pattern(call.files[j], CombinedPatterns)}

\* the fatal entries about uncovered files
UncoveredEntries ==
    {k \in 1..Len(call.result) :
        call.result[k].fatal /\ StartsWith(call.result[k].message, "Files not covered")}

\* C16 (as claimed): when a changed file matches none of the combined allow
\* and shared_allow patterns of a plan with steps, validation returns exactly
\* one fatal entry about uncovered files, and it names a changed file iff the
\* file matches no pattern.
C16_UncoveredFiles ==
    (Validated /\ CallSteps # <<>> /\ Unmatched # {}) =>
        /\ Cardinality(UncoveredEntries) = 1
        /\ \A k \in UncoveredEntries, j \in 1..Len(call.files) :
              Contains(call.result[k].message, "'" \o call.files[j] \o "'")
                  <=> (j \in Unmatched)

----------------------------------------------------------------------------
\* every step has a non-empty allow list and every changed file matches one
\* of the combined patterns
FullyCovered ==
    /\ CallSteps # <<>>
    /\ \A k \in 1..Len(CallSteps) : Get(CallSteps[k], "allow", <<>>) # <<>>
    /\ Unmatched = {}

\* C17 (as claimed): a plan with steps, each with a non-empty allow list,
\* whose combined patterns match every changed file gets no fatal entry.
C17_FullCoverage == (Validated /\ FullyCovered) => FatalErrors(call.result) = {}

\* C17 (amended): a plan with steps, each with a non-empty allow list, none
\* of whose patterns is empty, '**' or '**/*', and whose combined patterns
\* match every changed file gets no fatal entry.
C17_FullCoverageAmended ==
    (/\ Validated /\ FullyCovered
     /\ \A k \in 1..Len(CombinedPatterns) : CombinedPatterns[k] \notin {"", "**", "**/*"})
        => FatalErrors(call.result) = {}

C17_Witness ==
    /\ Validated /\ FullyCovered
    /\ call.plan = GoodPlan(2) /\ call.files = <<"lib/a/x.py">>
    /\ call.result # <<>> /\ FatalErrors(call.result) = {}

----------------------------------------------------------------------------
\* the entries of the result with this message
EntriesSaying(message) == {k \in 1..Len(call.result) : call.result[k].message = message}

\* C18 (as claimed): validation returns a fatal entry for every step whose
\* allow list is empty or missing; for a step with an allow list whose title
\* or goal is empty it returns a warning about that field and no fatal one.
C18_RequiredFields ==
    Validated =>
        \A k \in 1..Len(CallSteps) :
            LET step == CallSteps[k]
                sid == "Step " \o IntToStr(step.id)
                missing(name) == EntriesSaying(sid \o ": missing '" \o name \o "' field")
            IN  IF Get(step, "allow", <<>>) = <<>>
                THEN \E e \in missing("allow") : call.result[e].fatal
                ELSE \A name \in {"title", "goal"} :
                        Get(step, name, "") = "" =>
                            /\ missing(name) # {}
                            /\ \A e \in missing(name) : ~call.result[e].fatal
----------------------------------------------------------------------------
\* C19 (as claimed): for a pattern d + '/**' and a path f, matches_pattern
\* holds iff f = d or f starts with d + '/'.
C19_TrailingGlob ==
    (call.fn = "matches_pattern" /\ call.done /\ EndsWith(call.pattern, "/**")) =>
        LET d == SubSeq(call.pattern, 1, Len(call.pattern) - 3)
        IN  call.result <=> (call.filepath = d \/ StartsWith(call.filepath, d \o "/"))

----------------------------------------------------------------------------
\* the texts without '/' that occur in f, the empty text included
SegmentTexts(f) ==
    {""} \cup {t \in {SubSeq(f, i, j) : i \in 1..Len(f), j \in 1..Len(f)} :
                  ~Contains(t, "/")}

\* the texts the pattern gives when each '*' is replaced by a text of T
RECURSIVE Expand(_, _)
Expand(pattern, T) ==
    IF pattern = "" THEN {""}
    ELSE IF Head(pattern) = "*"
         THEN {t \o r : t \in T, r \in Expand(Tail(pattern), T)}
         ELSE {Head(pattern) \o r : r \in Expand(Tail(pattern), T)}

\* C20: for a pattern with '*' and no '**', matches_pattern holds only if the
\* path, or its last segments, is the pattern with each '*' replaced by a
\* text without '/'; 'lib/*.ex' matches 'lib/foo.ex' and not 'lib/sub/foo.ex'.
C20_SingleStar ==
    (/\ call.fn = "matches_pattern" /\ call.done
     /\ Contains(call.pattern, "*") /\ ~Contains(call.pattern, "**")) =>
        /\ call.result =>
              \E t \in Expand(call.pattern, SegmentTexts(call.filepath)) :
                  call.filepath = t \/ EndsWith(call.filepath, "/" \o t)
        /\ (call.pattern = "lib/*.ex" /\ call.filepath = "lib/foo.ex") => call.result
        /\ (call.pattern = "lib/*.ex" /\ call.filepath = "lib/sub/foo.ex") => ~call.result

C20_Witness ==
    /\ call.fn = "matches_pattern" /\ call.done
    /\ call.pattern = "lib/*/*.ex" /\ call.filepath = "lib/sub/foo.ex"
    /\ call.result
----------------------------------------------------------------------------
\* the patterns validate_patterns is to reject
Rejected(p) == p \in {"", "**", "**/*"}

\* the number of rejected patterns among the first n of ps
RECURSIVE RejectedCount(_, _)
RejectedCount(ps, n) ==
    IF n = 0 THEN 0 ELSE RejectedCount(ps, n - 1) + (IF Rejected(ps[n]) THEN 1 ELSE 0)

----------------------------------------------------------------------------
\* C22: check_allowlist returns exactly the listed working-tree paths that
\* are not '.gitignore', not '.pullsaw', not under '.pullsaw/' and match none
\* of the patterns, in the order of the listing.
C22_AllowlistClassification ==
    (call.fn = "check_allowlist" /\ call.done) =>
        LET Outside(f) ==
                /\ f # ".gitignore" /\ f # ".pullsaw"
                /\ ~(Len(f) >= 9 /\ SubSeq(f, 1, 9) = ".pullsaw/")
                /\ \A k \in 1..Len(call.patterns) : ~matches_pattern(f, call.patterns[k])
        IN  call.result = SelectSeq(call.changed, Outside)

C22_Witness ==
    /\ call.fn = "check_allowlist" /\ call.done
    /\ call.changed = <<"README.md", ".pullsaw/plan.yaml", ".pullsawrc">>
    /\ call.patterns = <<"lib/a/**", "mix.exs">>
    /\ call.result = <<"README.md", ".pullsawrc">>
----------------------------------------------------------------------------
\* an applied execute_step
StepApplied == call.fn = "execute_step" /\ call.done

\* the kinds of the actions, in order
Kinds(actions) == [k \in 1..Len(actions) |-> actions[k].act]

\* the passes in which a fix agent was invoked: the first n of them
FixCount(actions) == Cardinality({k \in 1..Len(actions) : actions[k].act = "fix"})

\* the same answers of the environment, except that every pass finds (or
\* finds no) paths outside the allowlist
WithOutside(c, outside) ==
    [c EXCEPT !.rounds = [k \in 1..Len(c.rounds) |-> [c.rounds[k] EXCEPT !.outside = outside]]]

\* the actions without what the fix agent is told about the allowlist
Untold(actions) == [k \in 1..Len(actions) |-> [actions[k] EXCEPT !.outside = FALSE]]

\* C23: execute_step performs only branch, agent, verification and commit
\* actions (nothing restores or deletes a path), it performs the same actions
\* whether or not the passes find paths outside the allowlist, and the one
\* difference is that the fix agent of a pass is told about the paths that
\* pass found.
C23_AllowlistAdvisory ==
    StepApplied =>
        LET actions == call.result.actions
            fixes == {k \in 1..Len(actions) : actions[k].act = "fix"}
        IN  /\ \A k \in 1..Len(actions) :
                  /\ actions[k].act \in {"create_branch", "implement", "allowlist", "format",
                                         "check", "test", "fix", "commit", "raise"}
                  /\ actions[k].act # "fix" => ~actions[k].outside
            /\ \A outside \in BOOLEAN :
                  LET twin == execute_step(WithOutside(call, outside))
                  IN  /\ Untold(twin.actions) = Untold(actions)
                      /\ twin.raised = call.result.raised
                      /\ twin.cost = call.result.cost
            /\ \A k \in fixes :
                  LET pass == Cardinality({j \in fixes : j <= k})
                  IN  actions[k].outside = call.rounds[pass].outside

C23_Witness ==
    /\ StepApplied
    /\ ~call.result.raised
    /\ call.rounds[1].outside
    /\ \E k \in 1..Len(call.result.actions) :
          call.result.actions[k].act = "fix" /\ call.result.actions[k].outside
    /\ call.result.actions[Len(call.result.actions)].act = "commit"

----------------------------------------------------------------------------
\* the cost an agent invocation reports
Reported(raw) == IF raw.has_cost THEN raw.total_cost_usd ELSE 0

RECURSIVE FixCosts(_, _)
FixCosts(rounds, n) ==
    IF n = 0 THEN 0 ELSE FixCosts(rounds, n - 1) + Reported(rounds[n].fix.raw)

\* the costs reported by the invocations of a step that made n fix invocations
InvocationCosts(c, n) ==
    (IF c.is_retry THEN 0 ELSE Reported(c.impl.raw)) + FixCosts(c.rounds, n)

\* the same answers of the environment, except that no invocation reports a cost
Uncosted(c) ==
    [c EXCEPT !.impl.raw = NoRaw,
              !.rounds = [k \in 1..Len(c.rounds) |-> [c.rounds[k] EXCEPT !.fix.raw = NoRaw]]]

RECURSIVE StepCosts(_)
StepCosts(steps) ==
    IF steps = <<>> THEN 0
    ELSE InvocationCosts(Head(steps), FixCount(execute_step(Head(steps)).actions))
            + StepCosts(Tail(steps))

\* C24: the cost a returning execute_step returns is the sum of the costs its
\* implementation and fix invocations reported, the total of a run is the sum
\* over its executed steps, and the actions of a step and of a run are the
\* same when no invocation reports a cost.
C24_CostObservational ==
    /\ StepApplied =>
          /\ ~call.result.raised =>
                call.result.cost = InvocationCosts(call, FixCount(call.result.actions))
          /\ execute_step(Uncosted(call)).actions = call.result.actions
          /\ execute_step(Uncosted(call)).raised = call.result.raised
    /\ (call.fn = "execute" /\ call.done) =>
          LET free == execute([k \in 1..Len(call.steps) |-> Uncosted(call.steps[k])], 0)
          IN  /\ ~call.result.raised => call.result.cost = StepCosts(call.steps)
              /\ free.actions = call.result.actions
              /\ free.raised = call.result.raised

C24_Witness ==
    /\ call.fn = "execute" /\ call.done
    /\ Len(call.steps) = 2
    /\ ~call.result.raised
    /\ FixCount(call.result.actions) = 1
    /\ call.result.cost = 7
----------------------------------------------------------------------------
\* the positions of the fix invocations among the actions
FixPositions(actions) == {k \in 1..Len(actions) : actions[k].act = "fix"}

\* C25 (as claimed): every fix invocation of a step resumes a session, and
\* where the step invoked the implementation agent it is the session id that
\* invocation returned.
C25_FixResumesSession ==
    StepApplied =>
        \A k \in FixPositions(call.result.actions) :
            /\ call.result.actions[k].resume # None
            /\ ~call.is_retry => call.result.actions[k].resume = call.impl.session_id

----------------------------------------------------------------------------
\* C26 (as claimed): after an agent invocation that reports failure and
\* leaves no changed file the step is aborted: the implementation, and every
\* fix invocation, is then followed by the raise that ends the step.
C26_AgentFailureAborts ==
    StepApplied =>
        LET actions == call.result.actions
            fixes == FixPositions(actions)
            Aborted(k) == /\ call.result.raised
                          /\ Len(actions) = k + 1
                          /\ actions[k + 1].act = "raise"
        IN  /\ (~call.is_retry /\ ~call.impl.success /\ ~call.impl.changed) => Aborted(2)
            /\ \A k \in fixes :
                  LET fix == call.rounds[Cardinality({j \in fixes : j <= k})].fix
                  IN  (~fix.success /\ ~fix.changed) => Aborted(k)
----------------------------------------------------------------------------
\* a list of str as safe_load would build it
StrList(items) == YList([k \in 1..Len(items) |-> YStr(items[k])])

\* C27: reading back what to_yaml wrote gives a plan with as many steps and,
\* step by step, the same id, title, goal, allow and shared_allow; the dict
\* of a step has the key shared_allow only for a non-empty list and the key
\* topic only for a non-empty topic.
C27_PlanRoundTrip ==
    (call.fn = "Plan.to_yaml" /\ call.done) =>
        /\ ~call.result.raised
        /\ Len(call.result.steps) = Len(call.steps)
        /\ \A k \in 1..Len(call.steps) :
              LET was == call.steps[k]
                  back == call.result.steps[k]
                  data == call.result.data[k]
              IN  /\ back.id = YInt(IntToStr(was.id))
                  /\ back.title = YStr(was.title)
                  /\ back.goal = YStr(was.goal)
                  /\ back.allow = StrList(was.allow)
                  /\ back.shared_allow = StrList(was.shared_allow)
                  /\ "shared_allow" \in data.keys <=> was.shared_allow # <<>>
                  /\ "topic" \in data.keys <=> was.topic \notin {None, ""}
        /\ ~Contains(call.result.text, "shared_allow: []")
        /\ ~Contains(call.result.text, "topic: ''")
        /\ ~Contains(call.result.text, "topic: null")

C27_Witness ==
    /\ call.fn = "Plan.to_yaml" /\ call.done
    /\ Len(call.steps) = 2
    /\ call.steps[1].title = "123" /\ call.steps[2].shared_allow = <<>>
    /\ call.result.steps[1].title = YStr("123")
    /\ call.result.steps[1].allow = StrList(<<"7", "true">>)
    /\ call.result.steps[2].shared_allow = YList(<<>>)
----------------------------------------------------------------------------
\* C28: sanitizing a sanitized name changes nothing, and a sanitized name
\* holds no whitespace, none of ~ ^ : ? * [ ] \ @ /, no two dots or two
\* hyphens in a row, and neither starts nor ends with a dot or a hyphen.
C28_SanitizeIdempotent ==
    (call.fn = "sanitize_branch_name" /\ call.done) =>
        LET safe == call.result.once
        IN  /\ call.result.twice = safe
            /\ \A i \in 1..Len(safe) :
                  SubSeq(safe, i, i) \notin {" ", "\t", "\n", "~", "^", ":", "?", "*", "[", "]",
                                             "\\", "@", "/"}
            /\ ~Contains(safe, "..")
            /\ ~Contains(safe, "--")
            /\ safe # "" => /\ SubSeq(safe, 1, 1) \notin {".", "-"}
                            /\ SubSeq(safe, Len(safe), Len(safe)) \notin {".", "-"}

C28_Witness ==
    /\ call.fn = "sanitize_branch_name" /\ call.done
    /\ call.name = "-a/.."
    /\ call.result.once = "a"
    /\ call.result.twice = "a"
----------------------------------------------------------------------------
\* the branch reads '<head>-step-<N>' with a non-empty head and a number N
HasStepForm(current) ==
    \E i \in 1..Len(current) :
        /\ i >= 2
        /\ StartsWith(DropChars(current, i - 1), "-step-")
        /\ IsDigits(DropChars(current, i + 5))

\* C29 (as claimed): --continue fails exactly on a branch that does not read
\* '<head>-step-<N>', and on the branch execute_step created for a step of a
\* head it derives that head and that step id.
C29_ResumeRoundTrip ==
    (call.fn = "--continue" /\ call.done) =>
        /\ call.result.failed <=> ~HasStepForm(call.current)
        /\ call.created =>
              /\ ~call.result.failed
              /\ call.result.head = call.head
              /\ call.result.start_from = call.step_id
----------------------------------------------------------------------------
\* the problems of one entry of a config: an unknown key, a null where none
\* is allowed, a value of another type than the schema's, the items of a
\* list that are no strings, an integer outside its range
EntryProblems(e) ==
    IF \A k \in 1..Len(ConfigKeys) : ConfigKeys[k] # e.key THEN 1
    ELSE IF e.value.kind = "null" THEN (IF SchemaNullable(e.key) THEN 0 ELSE 1)
    ELSE IF e.value.kind # SchemaType(e.key) THEN 1
    ELSE IF e.value.kind = "list"
    THEN Cardinality({i \in 1..Len(e.value.items) : e.value.items[i].kind # "str"})
    ELSE IF e.value.kind = "int"
    THEN (IF StrToInt(e.value.text) < SchemaMin(e.key)
             \/ StrToInt(e.value.text) > SchemaMax(e.key) THEN 1 ELSE 0)
    ELSE 0

RECURSIVE ProblemCount(_)
ProblemCount(data) ==
    IF data = <<>> THEN 0 ELSE EntryProblems(Head(data)) + ProblemCount(Tail(data))

\* C30 (as claimed): validate_config_data returns one message for every
\* problem of the config, Config._from_yaml raises one ConfigValidationError
\* carrying all of them, and a config without problems raises nothing.
C30_ConfigAggregated ==
    (call.fn = "Config._from_yaml" /\ call.done) =>
        /\ Len(call.result.errors) = ProblemCount(call.data)
        /\ call.result.raised = "ConfigValidationError" <=> ProblemCount(call.data) > 0
        /\ call.result.carried = call.result.errors
----------------------------------------------------------------------------
\* the positions of the steps whose patterns match none of the changed files
UselessSteps ==
    {k \in 1..Len(CallSteps) :
        \A j \in 1..Len(call.files) :
            ~matches_any_pattern(call.files[j], StepPatterns(CallSteps[k]))}

\* the entries of the result saying that a step covers no changed file
UsefulnessEntries ==
    {k \in 1..Len(call.result) :
        EndsWith(call.result[k].message, " doesn't cover any changed files")}

\* the id by which the validator names a step
ValidatorStepId(step) ==
    IF call.fn = "Plan.validate" THEN IntToStr(Get(step, "id", 0)) ELSE StepIdStr(step)

\* C31: validation returns one warning per step whose allow and shared_allow
\* patterns match none of the changed files, naming that step and in the
\* order of the steps, and none for a step that matches a changed file; the
\* warning is never fatal.
C31_StepUsefulness ==
    (Validated /\ CallSteps # <<>>) =>
        /\ Cardinality(UsefulnessEntries) = Cardinality(UselessSteps)
        /\ \A e \in UsefulnessEntries :
              /\ ~call.result[e].fatal
              /\ \E k \in UselessSteps :
                    /\ Cardinality({d \in UsefulnessEntries : d < e})
                           = Cardinality({m \in UselessSteps : m < k})
                    /\ call.result[e].message =
                           "Step " \o ValidatorStepId(CallSteps[k])
                               \o " doesn't cover any changed files"

C31_Witness ==
    /\ call.fn = "Plan.validate" /\ call.done
    /\ call.plan = GoodPlan(3) /\ call.files = <<"lib/a/x.py">>
    /\ UselessSteps = {2, 3} /\ Cardinality(UsefulnessEntries) = 2
    /\ FatalErrors(call.result) = {}
----------------------------------------------------------------------------
\* the validated plan document has a 'stack' field that holds no step
EmptyPlan == "stack" \in call.plan.keys /\ call.plan.stack = <<>>

\* C32: validating a plan with zero steps returns exactly one entry, which is
\* fatal and says that the plan has no steps, whatever the changed files are:
\* no coverage entry and no per-step entry is produced.
C32_EmptyPlan ==
    (Validated /\ EmptyPlan) =>
        /\ Len(call.result) = 1
        /\ call.result[1].fatal
        /\ call.result[1].message = "Plan has no steps"
        /\ UncoveredEntries = {} /\ UsefulnessEntries = {}

C32_Witness ==
    /\ Validated /\ EmptyPlan
    /\ call.files = <<"lib/a/x.py", "mix.exs", "README.md">>
    /\ Len(call.result) = 1 /\ call.result[1].fatal
----------------------------------------------------------------------------
\* the call with a format command that exits with 0 in every pass
FormatSucceeding(c) ==
    [c EXCEPT !.rounds = [k \in 1..Len(c.rounds) |-> WithFormat(c.rounds[k], 0)]]

\* the passes of the call in which the format command exits non-zero
FormatFailures == {k \in 1..Len(call.rounds) : call.rounds[k].format_rc # 0}

\* the number of passes execute_step has made
PassCount(actions) == Cardinality({k \in 1..Len(actions) : actions[k].act = "allowlist"})

\* C33: the exit code of the format command has no effect on what follows:
\* execute_step performs the same actions (check, tests, fix, commit or
\* raise), in the same order and at the same cost, as it does when the format
\* command exits with 0 in every pass.
C33_FormatNeverBlocks ==
    (StepApplied /\ call.config.format_cmd) =>
        LET as_if == execute_step(FormatSucceeding(call))
        IN  /\ call.result.actions = as_if.actions
            /\ call.result.raised = as_if.raised
            /\ call.result.cost = as_if.cost
            /\ \A k \in 1..Len(call.result.actions) :
                  call.result.actions[k].act = "format" =>
                      /\ k < Len(call.result.actions)
                      /\ call.result.actions[k + 1].act =
                             (IF call.config.check_cmd THEN "check" ELSE "test")

C33_Witness ==
    /\ StepApplied /\ call.config.format_cmd /\ call.config.check_cmd
    /\ FormatFailures = {1, 2}
    /\ PassCount(call.result.actions) = 2
    /\ Kinds(call.result.actions)[Len(call.result.actions)] = "commit"
----------------------------------------------------------------------------
\* the positions at which the passes of the fix loop begin
PassStarts(actions) == {k \in 1..Len(actions) : actions[k].act = "allowlist"}

\* the pass an action belongs to
PassOf(actions, k) == Cardinality({p \in PassStarts(actions) : p <= k})

\* in pass j, the check command is configured and exits non-zero, or the test
\* command exits non-zero
FailedPass(c, j) ==
    \/ c.config.check_cmd /\ c.rounds[j].check_rc # 0
    \/ c.rounds[j].test_rc # 0

\* C34: a fix invocation happens only directly after the check or the test
\* command of a pass in which one of them failed; exactly one fix invocation
\* lies between two passes that follow each other and none after the last;
\* and a failing first pass followed by a passing second pass gives exactly
\* one fix invocation and a commit.
C34_FixAfterFailure ==
    StepApplied =>
        LET actions == call.result.actions
            passes == PassCount(actions)
        IN  /\ \A k \in FixPositions(actions) :
                  /\ k > 1 /\ actions[k - 1].act \in {"check", "test"}
                  /\ PassOf(actions, k) \in 1..Len(call.rounds)
                  /\ FailedPass(call, PassOf(actions, k))
            /\ \A j \in 1..passes :
                  Cardinality({k \in FixPositions(actions) : PassOf(actions, k) = j})
                      = (IF j < passes THEN 1 ELSE 0)
            /\ (/\ Len(call.rounds) >= 2
                /\ FailedPass(call, 1) /\ ~FailedPass(call, 2)
                /\ passes > 0)
                   => /\ FixCount(actions) = 1
                      /\ actions[Len(actions)].act = "commit"

C34_Witness ==
    /\ StepApplied /\ Len(call.rounds) = 2 /\ call.is_retry
    /\ call.rounds[1].test_rc = 1 /\ ~FailedPass(call, 2)
    /\ FixCount(call.result.actions) = 1
    /\ PassCount(call.result.actions) = 2
    /\ call.result.actions[Len(call.result.actions)].act = "commit"
----------------------------------------------------------------------------
\* the positions at which execute_step commits
CommitPositions(actions) == {k \in 1..Len(actions) : actions[k].act = "commit"}

\* the passes in which the test command ran and exited with 0
VerifiedPasses(c, actions) ==
    {PassOf(actions, k) : k \in {t \in 1..Len(actions) :
        /\ actions[t].act = "test"
        /\ PassOf(actions, t) \in 1..Len(c.rounds)
        /\ c.rounds[PassOf(actions, t)].test_rc = 0}}

\* C35 (as claimed): for every max_fix_attempts a Config object can hold,
\* values below 1 included, execute_step does not commit unless it has run a
\* pass whose test command exited with 0.
C35_NoUnverifiedCommit ==
    StepApplied =>
        (CommitPositions(call.result.actions) # {}
            => VerifiedPasses(call, call.result.actions) # {})
----------------------------------------------------------------------------
\* the name create_branch gave the branch of step i when the step was first
\* executed
FirstCreatedAs(i) ==
    sanitize_branch_name(StepBranchName(env.head, IntToStr(ExecStepId(i))))

\* C36 (as claimed): the branch name execute infers for an already-done or
\* skipped step, and the name execute_step uses and returns in retry mode,
\* is the name create_branch returned when the step was first executed (a
\* branch of the repository).
C36_ResumeBranchNames ==
    \A i \in 1..Len(ex.branches) :
        (ex.modes[i] \in {"done", "skipped", "retry"} /\ FirstCreatedAs(i) \in repo.refs)
            => ex.branches[i] = FirstCreatedAs(i)
----------------------------------------------------------------------------
\* execute has returned normally
ExecuteReturned == out.status = "done"

\* C37 (as claimed): execute reports 'no drift', and in strict mode returns
\* normally, only if the name-status diff between the original head and the
\* final branch was computed and is empty; a git diff that fails is not taken
\* for an empty diff.
C37_DriftVerdictSound ==
    (/\ ExecuteReturned
     /\ out.msg = "No drift - stack matches original!" \/ env.config.strict)
        => ex.diff.result = "empty"
----------------------------------------------------------------------------
\* C38 (as claimed): for a plan document with a 'stack' field and any changed
\* files, executor.validate_plan on the dict and Plan.validate on the plan
\* Plan.from_dict builds from it return the same entries, in the same order
\* and with the same fatal flags.
C38_ValidatorsAgree ==
    (call.fn = "validate_plan" /\ call.done /\ "stack" \in call.plan.keys) =>
        call.result = Plan_validate(call.plan, call.files)
----------------------------------------------------------------------------
\* C39 (as claimed): when validation returns no fatal entry for a plan, no
\* two steps of the plan get the same branch name.
C39_DistinctBranches ==
    (call.fn = "plan_branches" /\ call.done /\ FatalErrors(call.result.errors) = {}) =>
        \A i, j \in 1..Len(call.result.branches) :
            i # j => call.result.branches[i] # call.result.branches[j]
----------------------------------------------------------------------------
\* execute_step returns to execute
StepReturns == pc = "commit" /\ pc' = "exec_loop"

\* an exception leaves execute_step
StepRaises == pc \in StepPcs /\ out.status = "running" /\ out'.status = "raised"

\* at most one implementation invocation per run of execute_step and at most
\* one commit per plan position
C40_State ==
    /\ st.impls <= 1
    /\ \A i \in Positions : Cardinality(CommitsFor(i)) <= 1

\* a returning run commits once, as the last thing it does; the
\* implementation agent runs before the first verification attempt
C40_Returning ==
    /\ StepReturns =>
          /\ CommitsFor(ex.i) = {}
          /\ Len(commits') = Len(commits) + 1
          /\ SubSeq(commits', 1, Len(commits)) = commits
          /\ commits'[Len(commits')].step = ex.i
          /\ st'.last = "commit"
          /\ repo' = repo /\ created' = created
    /\ commits' # commits => StepReturns
    /\ st'.impls > st.impls => (st.impls = 0 /\ st.verifs = 0 /\ st'.verifs = 0)

====
